---- MODULE Spec2Model ----
(***************************************************************************)
(* Timeline compilation of the video-automation Remotion app.              *)
(*                                                                         *)
(* The timeline builder (components/timeline.ts), buildTimelineMetadata    *)
(* (components/VideoTimeline.tsx) and the transition curve evaluation      *)
(* (components/Transitions.tsx) are modelled as operators computed the way *)
(* the TypeScript computes them.                                           *)
(*                                                                         *)
(* Numbers.  Seconds are JavaScript doubles in the source.  The model      *)
(* measures seconds in ticks of 1/TicksPerSecond s, a power of two, so     *)
(* that every product seconds * fps of the model is exact in a double and  *)
(* Math.round sees exactly the rational the model rounds.  Frames are      *)
(* integers.  An optional value (x?: T) is a sequence of length 0          *)
(* (undefined) or 1.                                                       *)
(***************************************************************************)
EXTENDS Integers, Sequences, FiniteSets, TLC

VARIABLES
    segments,                   \* plan.segments handed to buildTimelineMetadata
    fps,                        \* frames per second of the composition
    fallbackTransitionSeconds,  \* in ticks
    timeline,                   \* TimelineMetadata.timeline
    totalDurationInFrames,      \* TimelineMetadata.totalDurationInFrames
    pc,                         \* "plan": not compiled yet, "built": metadata computed
    evalTransition,             \* arguments of the last evaluateTransitionStyle call
    evalProgress,
    evalPhase,
    style,                      \* its result, composed as useSegmentTransition does
    highlights,                 \* plan.highlights of the active plan
    sanitizedHighlights,        \* FinalComposition: the highlights handed to SfxLayer
    audioConfig,                \* runtimeConfig.audio handed to SfxLayer
    events,                     \* SfxLayer: the sorted SfxEvent list
    rendered,                   \* SfxLayer: the asset path each event's Audio plays
    sfxRequest,                 \* argument of the last normalizeSfx call
    sfxResolved,                \* its result
    envEvent,                   \* the SfxEvent whose volume envelope is evaluated
    envFrame,                   \* frame offset of the last envelope evaluation
    amplitude,                  \* its result, in millionths
    overrides,                  \* argument of resolveRuntimeConfig
    runtimeConfig,              \* its result
    audioDefaults,              \* the module-level AUDIO object of config.ts
    parseInput,                 \* raw transition handed to the plan schema
    parseResult,                \* outcome of the parse
    clip,                       \* the last SegmentClip render: frame, styles, volume
    props,                      \* the input props of the FinalVideo composition
    metadata                    \* what calculateMetadata returned for them

sfxVars == <<highlights, sanitizedHighlights, audioConfig, events, rendered>>

resolveVars == <<sfxRequest, sfxResolved>>

envelopeVars == <<envEvent, envFrame, amplitude>>

configVars == <<overrides, runtimeConfig, audioDefaults>>

parseVars == <<parseInput, parseResult>>

metadataVars == <<props, metadata>>

vars == <<segments, fps, fallbackTransitionSeconds, timeline,
          totalDurationInFrames, pc, evalTransition, evalProgress, evalPhase, style,
          sfxVars, resolveVars, envelopeVars, configVars, parseVars, clip,
          metadataVars>>

timelineVars == <<segments, fps, fallbackTransitionSeconds, timeline,
                  totalDurationInFrames, pc>>

curveVars == <<evalTransition, evalProgress, evalPhase, style>>

---------------------------------------------------------------------------
(* Bounds and units *)

MaxSegments == 3

TicksPerSecond == 2 * 32

\* progress, eased progress and intensity are in thousandths
PerMille == 10 * 100

\* style values (opacity, scale, px, deg) are in millionths
Micro == PerMille * PerMille

VIDEO_FPS == 30

VIDEO_WIDTH == 1920

VIDEO_HEIGHT == 1080

None == <<>>

Some(x) == <<x>>

IsSome(o) == Len(o) > 0

Max(a, b) == IF a >= b THEN a ELSE b

Min(a, b) == IF a <= b THEN a ELSE b

\* Math.floor of the rational n/d, d > 0
Floor(n, d) == n \div d

\* Math.round of the rational n/d, d > 0: floor(n/d + 1/2), halves go up
Round(n, d) == (2 * n + d) \div (2 * d)

---------------------------------------------------------------------------
(* Plan values *)

Transition(type, duration) ==
    [type |-> type, duration |-> duration, direction |-> None, intensity |-> None]

\* transition durations are z.number().positive().optional(): a crossfade
\* that takes the fallback duration and a cut of 0.25 s (7.5 frames at 30 fps)
TransitionPool ==
    { Transition("crossfade", None),
      Transition("cut", Some(TicksPerSecond \div 4)) }

TransitionInChoices == {None} \cup { Some(t) : t \in TransitionPool }

\* a slide of 2 s, longer than half of every segment of the pool
TransitionOutChoices == {None, Some(Transition("slide", Some(2 * TicksPerSecond)))}

\* segment durations are z.number().positive(): 1/64 s and 1 s
SegmentDurations == {1, TicksPerSecond}

SegmentPool ==
    [duration : SegmentDurations,
     transitionIn : TransitionInChoices,
     transitionOut : TransitionOutChoices,
     silenceAfter : BOOLEAN]

SegmentLists == UNION { [1..n -> SegmentPool] : n \in 0..MaxSegments }

\* fallback transition seconds: 0.125 s (3.75 frames at 30 fps) and 0.5 s
FallbackChoices == {TicksPerSecond \div 8, TicksPerSecond \div 2}

---------------------------------------------------------------------------
(* components/timeline.ts *)

toFrames(seconds, framesPerSecond) ==
    Max(0, Round(seconds * framesPerSecond, TicksPerSecond))

\* variant: a missing transition takes the fallback duration
resolveTransitionDurationDefaulted(transition, framesPerSecond, fallbackSeconds, maxNum, maxDen) ==
    LET targetSeconds == IF IsSome(transition) /\ IsSome(transition[1].duration)
                         THEN transition[1].duration[1]
                         ELSE fallbackSeconds
        frames == toFrames(targetSeconds, framesPerSecond)
    IN  Min(Max(frames, 0), Floor(maxNum, maxDen))

\* variant: the frames are not clamped to maxDurationFrames
resolveTransitionDurationUnclamped(transition, framesPerSecond, fallbackSeconds, maxNum, maxDen) ==
    IF ~IsSome(transition)
    THEN 0
    ELSE LET targetSeconds == IF IsSome(transition[1].duration)
                              THEN transition[1].duration[1]
                              ELSE fallbackSeconds
         IN  Max(toFrames(targetSeconds, framesPerSecond), 0)

\* maxDurationFrames is the rational maxNum/maxDen
resolveTransitionDuration(transition, framesPerSecond, fallbackSeconds, maxNum, maxDen) ==
    IF ~IsSome(transition)
    THEN 0
    ELSE LET targetSeconds == IF IsSome(transition[1].duration)
                              THEN transition[1].duration[1]
                              ELSE fallbackSeconds
             frames == toFrames(targetSeconds, framesPerSecond)
         IN  Min(Max(frames, 0), Floor(maxNum, maxDen))

\* variant: no minimum of one frame
segmentDurationFramesUnclamped(segment, framesPerSecond) ==
    toFrames(segment.duration, framesPerSecond)

segmentDurationFrames(segment, framesPerSecond) ==
    Max(1, toFrames(segment.duration, framesPerSecond))

\* index is 1-based here, 0-based in the source
allowInAt(segs, index) ==
    IF index > 1 THEN segs[index - 1].silenceAfter # FALSE ELSE FALSE

\* variant: silenceAfter is ignored
allowOutOfAlways(segment) == TRUE

allowOutOf(segment) == segment.silenceAfter # FALSE

\* variant: the next segment's transitionIn is taken even over an explicit
\* transitionOut
effectiveOutAtNeighbourFirst(segs, index) ==
    LET segment == segs[index]
        allowOut == allowOutOf(segment)
        explicitOut == IF allowOut THEN segment.transitionOut ELSE None
    IN  IF allowOut
           /\ index + 1 <= Len(segs) /\ IsSome(segs[index + 1].transitionIn)
        THEN segs[index + 1].transitionIn
        ELSE explicitOut

effectiveOutAt(segs, index) ==
    LET segment == segs[index]
        allowOut == allowOutOf(segment)
        explicitOut == IF allowOut THEN segment.transitionOut ELSE None
    IN  IF allowOut /\ ~IsSome(explicitOut)
           /\ index + 1 <= Len(segs) /\ IsSome(segs[index + 1].transitionIn)
        THEN segs[index + 1].transitionIn
        ELSE explicitOut

\* variant: the smaller of the two overlap requests governs
overlapFramesMin(previous, transitionInFrames) ==
    Min(previous.transitionOutFrames, transitionInFrames)

\* variant: the overlap is added to the previous end instead of subtracted
overlapFramesNegated(previous, transitionInFrames) ==
    0 - Max(previous.transitionOutFrames, transitionInFrames)

overlapFrames(previous, transitionInFrames) ==
    Max(previous.transitionOutFrames, transitionInFrames)

\* one iteration of segments.forEach: the record pushed for segs[index],
\* given the records pushed so far
placeSegment(segs, index, framesPerSecond, fallbackSeconds, placed) ==
    LET segment == segs[index]
        durationFrames == segmentDurationFrames(segment, framesPerSecond)
        allowIn == allowInAt(segs, index)
        allowOut == allowOutOf(segment)
        effectiveOut == effectiveOutAt(segs, index)
        segmentForTimeline ==
            [segment EXCEPT
                !.transitionIn = IF ~allowIn THEN None ELSE segment.transitionIn,
                !.transitionOut = IF allowOut THEN effectiveOut ELSE None]
        transitionInFrames ==
            IF allowIn
            THEN resolveTransitionDuration(segmentForTimeline.transitionIn,
                     framesPerSecond, fallbackSeconds, durationFrames, 2)
            ELSE 0
        transitionOutFrames ==
            IF allowOut
            THEN resolveTransitionDuration(segmentForTimeline.transitionOut,
                     framesPerSecond, fallbackSeconds, durationFrames, 2)
            ELSE 0
    IN  IF index = 1
        THEN [segment |-> segmentForTimeline,
              from |-> 0,
              duration |-> durationFrames,
              transitionInFrames |-> transitionInFrames,
              transitionOutFrames |-> transitionOutFrames,
              audioCrossfade |-> FALSE]
        ELSE LET previous == placed[index - 1]
                 overlap == overlapFrames(previous, transitionInFrames)
             IN  [segment |-> segmentForTimeline,
                  from |-> previous.from + previous.duration - overlap,
                  duration |-> durationFrames,
                  transitionInFrames |-> transitionInFrames,
                  transitionOutFrames |-> transitionOutFrames,
                  audioCrossfade |-> allowIn]

RECURSIVE buildTimelinePrefix(_, _, _, _)
buildTimelinePrefix(segs, framesPerSecond, fallbackSeconds, n) ==
    IF n = 0
    THEN <<>>
    ELSE LET placed == buildTimelinePrefix(segs, framesPerSecond, fallbackSeconds, n - 1)
         IN  Append(placed, placeSegment(segs, n, framesPerSecond, fallbackSeconds, placed))

buildTimeline(segs, framesPerSecond, fallbackSeconds) ==
    buildTimelinePrefix(segs, framesPerSecond, fallbackSeconds, Len(segs))

\* variant: the start of the last segment, without its duration
getPlanDurationLastStart(placed) ==
    IF Len(placed) = 0
    THEN 0
    ELSE placed[Len(placed)].from

getPlanDuration(placed) ==
    IF Len(placed) = 0
    THEN 0
    ELSE LET last == placed[Len(placed)]
         IN  last.from + last.duration

---------------------------------------------------------------------------
(* components/Transitions.tsx *)

clamp01(value) == Min(Max(value, 0), PerMille)

\* Easing.bezier(0.4, 0, 0.2, 1) of the remotion library, tabulated on the
\* progress grid (thousandths, rounded to the nearest thousandth); it is
\* exact at 0 and at 1
easeInOut(value) ==
    CASE value = 0 -> 0
      [] value = 125 -> 43
      [] value = 250 -> 237
      [] value = 375 -> 560
      [] value = 500 -> 776
      [] value = 625 -> 894
      [] value = 750 -> 959
      [] value = 875 -> 991
      [] value = 1000 -> 1000

ProgressGrid == {0, 250, 500, 750, 1000}

\* progress values handed to the evaluation, in and out of [0, 1]
ProgressChoices == ProgressGrid \cup {0 - 250, 1250}

resolveSlideOffset(direction, width, height) ==
    IF direction = Some("left") THEN [x |-> 0 - width, y |-> 0]
    ELSE IF direction = Some("right") THEN [x |-> width, y |-> 0]
    ELSE IF direction = Some("up") THEN [x |-> 0, y |-> 0 - height]
    ELSE IF direction = Some("down") THEN [x |-> 0, y |-> height]
    ELSE [x |-> 0, y |-> 0]

\* the TransitionStyle {} : every field undefined
EmptyStyle ==
    [translateX |-> None, translateY |-> None, scale |-> None,
     rotate |-> None, opacity |-> None, filter |-> None]

intensityOr(transition, default) ==
    IF IsSome(transition.intensity) THEN transition.intensity[1] ELSE default

\* the switch on transition.type, after the !transition and cut returns
styleOfType(t, eased, width, height, phase) ==
    CASE t.type = "crossfade" ->
            [EmptyStyle EXCEPT
                !.opacity = Some(IF phase = "in" THEN eased * PerMille
                                 ELSE Micro - eased * PerMille)]
      [] t.type = "slide" ->
            LET offset == resolveSlideOffset(t.direction, width, height)
            IN  IF phase = "in"
                THEN [EmptyStyle EXCEPT
                        !.translateX = Some(offset.x * (PerMille - eased) * PerMille),
                        !.translateY = Some(offset.y * (PerMille - eased) * PerMille),
                        !.opacity = Some(Max(eased * PerMille, 750 * PerMille))]
                ELSE [EmptyStyle EXCEPT
                        !.translateX = Some(offset.x * eased * PerMille),
                        !.translateY = Some(offset.y * eased * PerMille),
                        !.opacity = Some(Micro - eased * 200)]
      [] t.type = "zoom" ->
            LET intensity == intensityOr(t, 180)
            IN  IF phase = "in"
                THEN [EmptyStyle EXCEPT
                        !.scale = Some(Micro + intensity * (PerMille - eased)),
                        !.opacity = Some(eased * PerMille)]
                ELSE [EmptyStyle EXCEPT
                        !.scale = Some(Micro + intensity * eased),
                        !.opacity = Some(Micro - eased * 250)]
      [] t.type = "scale" ->
            LET intensity == intensityOr(t, 120)
                base == IF phase = "in"
                        THEN Micro - intensity * (PerMille - eased)
                        ELSE Micro - intensity * eased
            IN  [EmptyStyle EXCEPT
                    !.scale = Some(base),
                    !.opacity = Some(IF phase = "in" THEN eased * PerMille
                                     ELSE Micro - eased * 200)]
      [] t.type = "rotate" ->
            LET degrees == intensityOr(t, 100) * 25
            IN  IF phase = "in"
                THEN [EmptyStyle EXCEPT
                        !.rotate = Some(0 - degrees * (PerMille - eased)),
                        !.opacity = Some(eased * PerMille)]
                ELSE [EmptyStyle EXCEPT
                        !.rotate = Some(degrees * eased),
                        !.opacity = Some(Micro - eased * 250)]
      [] t.type = "blur" ->
            LET maxBlur == intensityOr(t, 500) * 12
            IN  IF phase = "in"
                THEN [EmptyStyle EXCEPT
                        !.filter = Some((PerMille - eased) * maxBlur),
                        !.opacity = Some(eased * PerMille)]
                ELSE [EmptyStyle EXCEPT
                        !.filter = Some(eased * maxBlur),
                        !.opacity = Some(Micro - eased * 300)]
      [] OTHER -> EmptyStyle

\* variant: no early return for a cut, which then fades like a crossfade
evaluateTransitionStyleCutFades(transition, progress, width, height, phase) ==
    IF ~IsSome(transition)
    THEN EmptyStyle
    ELSE LET normalized == IF phase = "out" THEN PerMille - progress ELSE progress
             eased == easeInOut(clamp01(normalized))
             t == transition[1]
         IN  styleOfType(IF t.type = "cut" THEN [t EXCEPT !.type = "crossfade"] ELSE t,
                         eased, width, height, phase)

\* variant: the progress of the out phase is not reversed
evaluateTransitionStyleUnreversed(transition, progress, width, height, phase) ==
    IF ~IsSome(transition)
    THEN EmptyStyle
    ELSE IF transition[1].type = "cut"
    THEN EmptyStyle
    ELSE styleOfType(transition[1], easeInOut(clamp01(progress)), width, height, phase)

evaluateTransitionStyle(transition, progress, width, height, phase) ==
    IF ~IsSome(transition)
    THEN EmptyStyle
    ELSE IF transition[1].type = "cut"
    THEN EmptyStyle
    ELSE LET normalized == IF phase = "out" THEN PerMille - progress ELSE progress
             eased == easeInOut(clamp01(normalized))
         IN  styleOfType(transition[1], eased, width, height, phase)

\* the defaults useSegmentTransition gives to the fields a style leaves out
opacityOf(s) == IF IsSome(s.opacity) THEN s.opacity[1] ELSE Micro

translateXOf(s) == IF IsSome(s.translateX) THEN s.translateX[1] ELSE 0

translateYOf(s) == IF IsSome(s.translateY) THEN s.translateY[1] ELSE 0

scaleOf(s) == IF IsSome(s.scale) THEN s.scale[1] ELSE Micro

rotateOf(s) == IF IsSome(s.rotate) THEN s.rotate[1] ELSE 0

\* transitions handed to the evaluation: every type the switch knows, the two
\* type names of types.ts it does not know, a cut carrying every optional field
CurveTransitions ==
    { Transition(type, None) : type \in {"cut", "crossfade", "fadeCamera", "slideWhoosh"} }
    \cup { [type |-> "cut", duration |-> Some(TicksPerSecond),
            direction |-> Some("left"), intensity |-> Some(300)] }
    \cup { [type |-> "slide", duration |-> None, direction |-> d, intensity |-> None] :
            d \in {None, Some("left"), Some("right"), Some("up"), Some("down")} }
    \cup { [type |-> type, duration |-> None, direction |-> None, intensity |-> i] :
            type \in {"zoom", "scale", "rotate", "blur"}, i \in {None, Some(300)} }

CurveTransitionChoices == {None} \cup { Some(t) : t \in CurveTransitions }

---------------------------------------------------------------------------
(* components/Transitions.tsx useSegmentTransition and
   components/SegmentClip.tsx.  Progress and the audio curves are in
   thousandths, the composed style and the volume in millionths. *)

\* interpolate of the remotion library with both sides clamped: the input
\* range is [inA, inB], inA < inB, the output range [outA, outB] in
\* thousandths, rounded down to the thousandth
interpolate(input, inA, inB, outA, outB) ==
    LET x == Min(Max(input, inA), inB)
    IN  outA + ((outB - outA) * (x - inA)) \div (inB - inA)

computeProgress(value) == clamp01(value)

computeAudioFadeFrames(frames, framesPerSecond) ==
    LET minFrames == Max(1, Round(framesPerSecond * 5, 10))
        maxFrames == Max(minFrames, Round(framesPerSecond * 15, 10))
    IN  IF frames <= 0
        THEN minFrames
        ELSE Max(minFrames, Min(frames, maxFrames))

\* the fade-in curve of the audio; options.audioCrossfade is not read
audioInOf(options) ==
    interpolate(options.frame, 0,
        computeAudioFadeFrames(options.transitionInFrames, options.fps),
        0, PerMille)

audioOutOf(options) ==
    interpolate(options.frame,
        options.durationInFrames
            - computeAudioFadeFrames(options.transitionOutFrames, options.fps),
        options.durationInFrames, PerMille, 0)

\* the value of the memo: the two evaluated styles, their composition and
\* the volume; products of two millionths are staged through thousandths
useSegmentTransition(options) ==
    LET fadeInProgress ==
            IF options.transitionInFrames > 0
            THEN computeProgress(interpolate(options.frame,
                     0, options.transitionInFrames, 0, PerMille))
            ELSE PerMille
        fadeOutProgress ==
            IF options.transitionOutFrames > 0
            THEN computeProgress(interpolate(options.frame,
                     options.durationInFrames - options.transitionOutFrames,
                     options.durationInFrames, PerMille, 0))
            ELSE PerMille
        enter == evaluateTransitionStyle(options.transitionIn, fadeInProgress,
                     options.width, options.height, "in")
        exit == evaluateTransitionStyle(options.transitionOut, fadeOutProgress,
                     options.width, options.height, "out")
    IN  [enter |-> enter,
         exit |-> exit,
         style |->
            [opacity |-> (opacityOf(enter) * (opacityOf(exit) \div PerMille)) \div PerMille,
             translateX |-> translateXOf(enter) + translateXOf(exit),
             translateY |-> translateYOf(enter) + translateYOf(exit),
             scale |-> (scaleOf(enter) * (scaleOf(exit) \div PerMille)) \div PerMille,
             rotate |-> rotateOf(enter) + rotateOf(exit),
             filters |-> enter.filter \o exit.filter],
         volume |-> clamp01(audioInOf(options)) * clamp01(audioOutOf(options))]

\* SegmentClip: the options handed to useSegmentTransition for the frame
\* useCurrentFrame returns inside the segment's Sequence
SegmentClip(timelineSegment, framesPerSecond, frame) ==
    LET cappedFrame == Max(0, Min(frame, timelineSegment.duration))
    IN  [index |-> 0, frame |-> cappedFrame] @@
        useSegmentTransition(
            [transitionIn |-> timelineSegment.segment.transitionIn,
             transitionOut |-> timelineSegment.segment.transitionOut,
             transitionInFrames |-> timelineSegment.transitionInFrames,
             transitionOutFrames |-> timelineSegment.transitionOutFrames,
             frame |-> cappedFrame,
             durationInFrames |-> timelineSegment.duration,
             width |-> VIDEO_WIDTH,
             height |-> VIDEO_HEIGHT,
             fps |-> framesPerSecond,
             audioCrossfade |-> timelineSegment.audioCrossfade])

MaxClipSegments == 2

\* a transition of every type of types.ts, lasting 0.125 s (4 frames at
\* 30 fps) or 0.25 s (8 frames): with windows of 4 or 8 frames the progress
\* of every frame falls on the eighths the easing is tabulated on
ClipTransition(type, duration, direction, intensity) ==
    Some([type |-> type, duration |-> duration, direction |-> direction,
          intensity |-> intensity])

ClipSegment(duration, transitionIn, transitionOut, silenceAfter) ==
    [duration |-> duration, transitionIn |-> transitionIn,
     transitionOut |-> transitionOut, silenceAfter |-> silenceAfter]

\* segments of 1 s, of 0.25 s (8 frames, so that a window of 8 frames is
\* clamped to 4 on either side) and of 1/64 s (one frame)
ClipSegmentPool ==
    LET eighth == Some(TicksPerSecond \div 8)
        quarter == Some(TicksPerSecond \div 4)
        short == TicksPerSecond \div 4
    IN  { ClipSegment(TicksPerSecond, None, None, TRUE),
          ClipSegment(TicksPerSecond,
              ClipTransition("crossfade", None, None, None),
              ClipTransition("slide", quarter, Some("left"), None), TRUE),
          ClipSegment(TicksPerSecond,
              ClipTransition("zoom", eighth, None, None),
              ClipTransition("scale", quarter, None, Some(300)), TRUE),
          ClipSegment(TicksPerSecond,
              ClipTransition("rotate", quarter, None, None),
              ClipTransition("blur", eighth, None, None), TRUE),
          ClipSegment(TicksPerSecond,
              ClipTransition("blur", quarter, None, Some(300)),
              ClipTransition("rotate", eighth, None, None), TRUE),
          ClipSegment(TicksPerSecond,
              ClipTransition("scale", eighth, None, None),
              ClipTransition("zoom", quarter, None, Some(300)), TRUE),
          ClipSegment(TicksPerSecond,
              ClipTransition("slide", eighth, Some("down"), None),
              ClipTransition("crossfade", quarter, None, None), TRUE),
          ClipSegment(TicksPerSecond,
              ClipTransition("fadeCamera", eighth, None, None),
              ClipTransition("slideWhoosh", quarter, None, None), TRUE),
          ClipSegment(TicksPerSecond,
              ClipTransition("cut", quarter, None, None),
              ClipTransition("cut", eighth, None, None), TRUE),
          ClipSegment(short,
              ClipTransition("crossfade", quarter, None, None),
              ClipTransition("crossfade", quarter, None, None), TRUE),
          ClipSegment(TicksPerSecond,
              ClipTransition("crossfade", eighth, None, None),
              ClipTransition("crossfade", eighth, None, None), FALSE),
          ClipSegment(1,
              ClipTransition("crossfade", eighth, None, None),
              None, TRUE) }

ClipSegmentLists == UNION { [1..n -> ClipSegmentPool] : n \in 0..MaxClipSegments }

---------------------------------------------------------------------------
(* Strings.  A JavaScript string is the sequence of its characters, each a
   one-character string, so that the prefix tests, slices and regular
   expressions of the source are computed character by character. *)

\* the string literals of the path resolution
Str ==
    [assetsSlash |-> <<"a", "s", "s", "e", "t", "s", "/">>,
     sfxSlash |-> <<"s", "f", "x", "/">>,
     assetsSfxSlash |-> <<"a", "s", "s", "e", "t", "s", "/", "s", "f", "x", "/">>,
     staticDash |-> <<"s", "t", "a", "t", "i", "c", "-">>,
     dotSlash |-> <<".", "/">>]

UpperChars ==
    <<"A", "B", "C", "D", "E", "F", "G", "H", "I", "J", "K", "L", "M",
      "N", "O", "P", "Q", "R", "S", "T", "U", "V", "W", "X", "Y", "Z">>

LowerChars ==
    <<"a", "b", "c", "d", "e", "f", "g", "h", "i", "j", "k", "l", "m",
      "n", "o", "p", "q", "r", "s", "t", "u", "v", "w", "x", "y", "z">>

LowerOfUpper ==
    [c \in { UpperChars[i] : i \in 1..26 } |->
        LowerChars[CHOOSE i \in 1..26 : UpperChars[i] = c]]

lowerChar(c) == IF c \in DOMAIN LowerOfUpper THEN LowerOfUpper[c] ELSE c

toLowerCase(str) == [i \in 1..Len(str) |-> lowerChar(str[i])]

startsWith(str, prefix) ==
    Len(str) >= Len(prefix) /\ SubSeq(str, 1, Len(prefix)) = prefix

\* str.slice(n)
sliceFrom(str, n) == SubSeq(str, n + 1, Len(str))

\* the index of the first / last occurrence of c in str, 0 if there is none
firstIndexOf(str, c) ==
    LET at == { i \in 1..Len(str) : str[i] = c }
    IN  IF at = {} THEN 0 ELSE CHOOSE i \in at : \A j \in at : i <= j

lastIndexOf(str, c) ==
    LET at == { i \in 1..Len(str) : str[i] = c }
    IN  IF at = {} THEN 0 ELSE CHOOSE i \in at : \A j \in at : j <= i

\* str.trim()
trim(str) ==
    LET blanks == { i \in 1..Len(str) : str[i] = " " }
        leading == { i \in blanks : 1..i \subseteq blanks }
        trailing == { i \in blanks : i..Len(str) \subseteq blanks }
    IN  SubSeq(str, Cardinality(leading) + 1, Len(str) - Cardinality(trailing))

\* str.replace(/\\/g, '/')
backslashesToSlashes(str) ==
    [i \in 1..Len(str) |-> IF str[i] = "\\" THEN "/" ELSE str[i]]

\* str.replace(/^\.\//, '')
stripDotSlash(str) ==
    IF startsWith(str, Str.dotSlash) THEN sliceFrom(str, 2) ELSE str

\* str.split('/').pop()
lastPathPart(str) == sliceFrom(str, lastIndexOf(str, "/"))

\* name.replace(/\.[^.]+$/, ''): the last dot and what follows it, when
\* something follows it
stripExtension(name) ==
    LET dot == lastIndexOf(name, ".")
    IN  IF dot > 0 /\ dot < Len(name) THEN SubSeq(name, 1, dot - 1) ELSE name

---------------------------------------------------------------------------
(* components/SfxLayer.tsx: asset path resolution *)

\* data/sfxCatalog: an ordered list of relative asset paths; two entries
\* share the file name notification.mp3
SFX_CATALOG ==
    << <<"u", "i", "/", "p", "o", "p", ".", "m", "p", "3">>,
       <<"t", "e", "c", "h", "/", "n", "o", "t", "i", "f", "i", "c", "a", "t", "i", "o", "n", ".", "m", "p", "3">>,
       <<"u", "i", "/", "n", "o", "t", "i", "f", "i", "c", "a", "t", "i", "o", "n", ".", "m", "p", "3">>,
       <<"a", "s", "s", "e", "t", "s", "/", "s", "f", "x", "/", "w", "h", "o", "o", "s", "h", "/", "w", "o", "o", "s", "h", ".", "m", "p", "3">> >>

\* catalogEntryKeys without the file-name and stem keys
catalogEntryKeysPathOnly(relativePath) ==
    LET canonical == IF startsWith(relativePath, Str.assetsSlash)
                     THEN relativePath
                     ELSE Str.assetsSfxSlash \o relativePath
        withoutPrefix == IF startsWith(canonical, Str.assetsSlash)
                         THEN sliceFrom(canonical, 7)
                         ELSE canonical
    IN  << <<toLowerCase(canonical), canonical>>,
           <<toLowerCase(withoutPrefix), canonical>> >>

\* the keys one catalog entry sets, in the order it sets them
catalogEntryKeys(relativePath) ==
    LET canonical == IF startsWith(relativePath, Str.assetsSlash)
                     THEN relativePath
                     ELSE Str.assetsSfxSlash \o relativePath
        withoutPrefix == IF startsWith(canonical, Str.assetsSlash)
                         THEN sliceFrom(canonical, 7)
                         ELSE canonical
        fileName == lastPathPart(withoutPrefix)
        lowerFileName == toLowerCase(fileName)
    IN  << <<toLowerCase(canonical), canonical>>,
           <<toLowerCase(withoutPrefix), canonical>> >>
        \o (IF Len(fileName) > 0
            THEN << <<lowerFileName, canonical>>,
                    <<stripExtension(lowerFileName), canonical>> >>
            ELSE <<>>)

\* the Map.set calls of the catalog loop, in order
RECURSIVE catalogEntries(_)
catalogEntries(catalog) ==
    IF Len(catalog) = 0
    THEN <<>>
    ELSE catalogEntries(SubSeq(catalog, 1, Len(catalog) - 1))
         \o catalogEntryKeys(catalog[Len(catalog)])

SFX_LOOKUP == catalogEntries(SFX_CATALOG)

\* Map.get: the value of the last set of the key, None when it was never set
lookupGet(entries, key) ==
    LET at == { i \in 1..Len(entries) : entries[i][1] = key }
    IN  IF at = {}
        THEN None
        ELSE Some(entries[CHOOSE i \in at : \A j \in at : j <= i][2])

\* value.replace(/^static-[^/]+\//, '')
stripStaticHash(value) ==
    LET slash == firstIndexOf(value, "/")
    IN  IF startsWith(value, Str.staticDash) /\ slash > Len(Str.staticDash) + 1
        THEN sliceFrom(value, slash)
        ELSE value

\* the first candidate the lookup knows, None when it knows none
RECURSIVE firstMatch(_, _)
firstMatch(entries, candidates) ==
    IF Len(candidates) = 0
    THEN None
    ELSE LET match == lookupGet(entries, candidates[1])
         IN  IF IsSome(match) /\ Len(match[1]) > 0
             THEN match
             ELSE firstMatch(entries, Tail(candidates))

\* variant: a reference that misses the catalog is put under assets/sfx/
\* whatever it starts with
normalizeSfxAlwaysPrefixed(value) ==
    IF ~IsSome(value) \/ Len(value[1]) = 0
    THEN None
    ELSE LET sanitized == trim(stripDotSlash(backslashesToSlashes(stripStaticHash(value[1]))))
             lower == toLowerCase(sanitized)
             withoutAssets == IF startsWith(lower, Str.assetsSlash)
                              THEN sliceFrom(lower, 7) ELSE lower
             withoutSfx == IF startsWith(withoutAssets, Str.sfxSlash)
                           THEN sliceFrom(withoutAssets, 4) ELSE withoutAssets
             fileName == lastPathPart(sanitized)
             candidates ==
                 << lower, withoutAssets, withoutSfx,
                    Str.assetsSlash \o withoutAssets,
                    Str.assetsSfxSlash \o withoutSfx,
                    Str.sfxSlash \o withoutSfx >>
                 \o (IF Len(fileName) > 0
                     THEN << toLowerCase(fileName),
                             toLowerCase(stripExtension(fileName)) >>
                     ELSE <<>>)
             match == firstMatch(SFX_LOOKUP, candidates)
         IN  IF Len(sanitized) = 0 THEN None
             ELSE IF IsSome(match) THEN match
             ELSE Some(Str.assetsSfxSlash \o sanitized)

\* value is an optional string; the result is an optional string, None for null
normalizeSfx(value) ==
    IF ~IsSome(value) \/ Len(value[1]) = 0
    THEN None
    ELSE LET sanitized == trim(stripDotSlash(backslashesToSlashes(stripStaticHash(value[1]))))
             lower == toLowerCase(sanitized)
             withoutAssets == IF startsWith(lower, Str.assetsSlash)
                              THEN sliceFrom(lower, 7) ELSE lower
             withoutSfx == IF startsWith(withoutAssets, Str.sfxSlash)
                           THEN sliceFrom(withoutAssets, 4) ELSE withoutAssets
             fileName == lastPathPart(sanitized)
             candidates ==
                 << lower, withoutAssets, withoutSfx,
                    Str.assetsSlash \o withoutAssets,
                    Str.assetsSfxSlash \o withoutSfx,
                    Str.sfxSlash \o withoutSfx >>
                 \o (IF Len(fileName) > 0
                     THEN << toLowerCase(fileName),
                             toLowerCase(stripExtension(fileName)) >>
                     ELSE <<>>)
             match == firstMatch(SFX_LOOKUP, candidates)
         IN  IF Len(sanitized) = 0 THEN None
             ELSE IF IsSome(match) THEN match
             ELSE IF startsWith(sanitized, Str.assetsSlash) THEN Some(sanitized)
             ELSE IF startsWith(sanitized, Str.sfxSlash) THEN Some(Str.assetsSlash \o sanitized)
             ELSE IF \E i \in 1..Len(sanitized) : sanitized[i] = "/"
                  THEN Some(Str.assetsSfxSlash \o sanitized)
             ELSE Some(Str.assetsSfxSlash \o sanitized)

\* sfx references of highlights and transitions, a bundler prefix and an
\* icon name
Req ==
    [popRelative |-> <<"u", "i", "/", "p", "o", "p", ".", "m", "p", "3">>,
     popAssets |-> <<"a", "s", "s", "e", "t", "s", "/", "s", "f", "x", "/", "u", "i", "/", "p", "o", "p", ".", "m", "p", "3">>,
     popSfx |-> <<"s", "f", "x", "/", "u", "i", "/", "p", "o", "p", ".", "m", "p", "3">>,
     popFile |-> <<"p", "o", "p", ".", "m", "p", "3">>,
     popStem |-> <<"p", "o", "p">>,
     popWindows |-> <<".", "\\", "U", "I", "\\", "P", "o", "p", ".", "M", "P", "3">>,
     notification |-> <<"n", "o", "t", "i", "f", "i", "c", "a", "t", "i", "o", "n", ".", "m", "p", "3">>,
     zapCustom |-> <<"c", "u", "s", "t", "o", "m", "/", "z", "a", "p", ".", "w", "a", "v">>,
     zapBare |-> <<"z", "a", "p", ".", "w", "a", "v">>,
     zapUpper |-> <<"S", "F", "X", "/", "Z", "a", "p", ".", "W", "A", "V">>,
     blank |-> <<" ", " ">>,
     empty |-> <<>>,
     iconRocket |-> <<"f", "a", ":", "R", "o", "c", "k", "e", "t">>,
     staticHashPrefix |-> <<"s", "t", "a", "t", "i", "c", "-", "a", "b", "1", "2", "/">>]

CanonicalPop == <<"a", "s", "s", "e", "t", "s", "/", "s", "f", "x", "/", "u", "i", "/", "p", "o", "p", ".", "m", "p", "3">>

\* the spellings a plan may use for one asset: an optional bundler or
\* relative prefix, an optional namespace, and a path
SfxRequestPrefixes == {<<>>, Str.dotSlash, Req.staticHashPrefix}

SfxRequestNamespaces == {<<>>, Str.assetsSlash, Str.sfxSlash, Str.assetsSfxSlash}

SfxRequestPaths ==
    {Req.popRelative, Req.popAssets, Req.popSfx, Req.popFile, Req.popStem,
     Req.popWindows, Req.notification, Req.zapCustom, Req.zapBare, Req.zapUpper,
     Req.blank, Req.empty}

SfxRequests ==
    {None} \cup { Some(prefix \o namespace \o path) :
                      prefix \in SfxRequestPrefixes,
                      namespace \in SfxRequestNamespaces,
                      path \in SfxRequestPaths }

---------------------------------------------------------------------------
(* icons/registry.ts: the default sound effect of a curated icon *)

AlnumChars ==
    { LowerChars[i] : i \in 1..26 }
    \cup {"0", "1", "2", "3", "4", "5", "6", "7", "8", "9"}

\* value.toLowerCase().replace(/[^a-z0-9]/g, '')
normalizeKey(value) == SelectSeq(toLowerCase(value), LAMBDA c : c \in AlnumChars)

RocketAliases ==
    << <<"r", "o", "c", "k", "e", "t">>,
       <<"l", "a", "u", "n", "c", "h">>,
       <<"l", "a", "u", "n", "c", "h", "-", "m", "o", "d", "e">>,
       <<"b", "o", "o", "s", "t">>,
       <<"l", "u", "c", "i", "d", "e", ":", "r", "o", "c", "k", "e", "t">> >>

RocketDefaultSfx == <<"a", "s", "s", "e", "t", "s", "/", "s", "f", "x", "/", "w", "h", "o", "o", "s", "h", "/", "w", "o", "o", "s", "h", ".", "m", "p", "3">>

\* curatedIconMap: the normalized aliases of the entry, then its id
curatedIconMap ==
    [i \in 1..Len(RocketAliases) |-> <<normalizeKey(RocketAliases[i]), RocketDefaultSfx>>]
    \o << <<normalizeKey(RocketAliases[1]), RocketDefaultSfx>> >>

\* trimmed.split(':', 2): the part before the first colon and the part
\* between the first and the second
buildLookupKeys(value) ==
    LET trimmed == trim(value)
        colon == firstIndexOf(trimmed, ":")
        prefix == SubSeq(trimmed, 1, colon - 1)
        afterColon == sliceFrom(trimmed, colon)
        second == firstIndexOf(afterColon, ":")
        rest == IF second > 0 THEN SubSeq(afterColon, 1, second - 1) ELSE afterColon
    IN  IF Len(trimmed) = 0
        THEN <<>>
        ELSE << trimmed,
                toLowerCase(trimmed),
                [i \in 1..Len(trimmed) |-> IF trimmed[i] = "_" THEN " " ELSE trimmed[i]] >>
             \o (IF colon > 0 THEN << rest, prefix \o <<":">> \o rest >> ELSE <<>>)

\* resolveIconVisual(name)?.defaultSfx
resolveIconVisual(name) ==
    IF ~IsSome(name) \/ Len(name[1]) = 0
    THEN None
    ELSE LET keys == buildLookupKeys(name[1])
         IN  firstMatch(curatedIconMap, [i \in 1..Len(keys) |-> normalizeKey(keys[i])])

---------------------------------------------------------------------------
(* components/SfxLayer.tsx: scheduling.  Gains are in thousandths of a
   decibel, volumes in thousandths. *)

MilliDb == 10 * 100

\* 20 * Math.log10(volume), for the volumes the plans use
volumeToDb(volume) ==
    CASE volume = PerMille -> 0
      [] volume = PerMille \div 2 -> 0 - 6021
      [] volume = PerMille \div 4 -> 0 - 12041

eventFromHighlight(highlight, framesPerSecond) ==
    [startFrame |-> Round(highlight.start * framesPerSecond, TicksPerSecond),
     durationInFrames |->
         Max(1, Round(highlight.duration * framesPerSecond, TicksPerSecond)),
     gainDb |-> IF IsSome(highlight.gain)
                THEN highlight.gain
                ELSE IF IsSome(highlight.volume) /\ highlight.volume[1] > 0
                     THEN Some(volumeToDb(highlight.volume[1]))
                     ELSE None,
     ducking |-> highlight.ducking # Some(FALSE)]

\* the body of the forEach of collectHighlightEvents: the events one
\* highlight pushes
highlightEvents(highlight, framesPerSecond) ==
    LET iconName == IF IsSome(highlight.icon) /\ Len(trim(highlight.icon[1])) > 0
                    THEN highlight.icon
                    ELSE IF IsSome(highlight.name) /\ Len(trim(highlight.name[1])) > 0
                         THEN highlight.name
                         ELSE None
        iconFallback == IF highlight.type = "icon" THEN resolveIconVisual(iconName) ELSE None
        requestedSfx == IF IsSome(highlight.sfx) THEN highlight.sfx ELSE iconFallback
        normalized == normalizeSfx(requestedSfx)
        timings == eventFromHighlight(highlight, framesPerSecond)
    IN  IF ~IsSome(requestedSfx) \/ Len(requestedSfx[1]) = 0
        THEN <<>>
        ELSE IF ~IsSome(normalized)
             THEN <<>>
             ELSE << [id |-> <<"highlight", highlight.id>>,
                      src |-> normalized[1],
                      startFrame |-> timings.startFrame,
                      durationInFrames |-> timings.durationInFrames,
                      gainDb |-> timings.gainDb,
                      ducking |-> timings.ducking] >>

RECURSIVE collectHighlightEvents(_, _)
collectHighlightEvents(list, framesPerSecond) ==
    IF Len(list) = 0
    THEN <<>>
    ELSE highlightEvents(list[1], framesPerSecond)
         \o collectHighlightEvents(Tail(list), framesPerSecond)

\* transitionEvents with the event at the start of the segment
transitionEventsAtSegmentStart(segment, index, framesPerSecond) ==
    LET plan == segment.segment
        transition == plan.transitionOut
        startFrame == segment.from
        durationInFrames ==
            IF IsSome(transition[1].duration)
            THEN Max(1, Round(transition[1].duration[1] * framesPerSecond, TicksPerSecond))
            ELSE Max(1, segment.transitionOutFrames)
        normalized == normalizeSfx(transition[1].sfx)
    IN  IF ~IsSome(transition) \/ ~IsSome(transition[1].sfx) \/ Len(transition[1].sfx[1]) = 0
        THEN <<>>
        ELSE IF ~IsSome(normalized)
             THEN <<>>
             ELSE << [id |-> <<"transition", plan.id, index>>,
                      src |-> normalized[1],
                      startFrame |-> startFrame,
                      durationInFrames |-> durationInFrames,
                      gainDb |-> None,
                      ducking |-> FALSE] >>

\* variant: a transitionIn carrying an sfx is scheduled as well, at the
\* start of its segment
transitionEventsBothSides(segment, index, framesPerSecond) ==
    LET plan == segment.segment
        entry == plan.transitionIn
        exit == plan.transitionOut
        eventOf(transition, startFrame, frames) ==
            IF ~IsSome(transition) \/ ~IsSome(transition[1].sfx)
               \/ ~IsSome(normalizeSfx(transition[1].sfx))
            THEN <<>>
            ELSE << [id |-> <<"transition", plan.id, index>>,
                     src |-> normalizeSfx(transition[1].sfx)[1],
                     startFrame |-> startFrame,
                     durationInFrames |->
                         IF IsSome(transition[1].duration)
                         THEN Max(1, Round(transition[1].duration[1] * framesPerSecond,
                                           TicksPerSecond))
                         ELSE Max(1, frames),
                     gainDb |-> None,
                     ducking |-> FALSE] >>
    IN  eventOf(entry, segment.from, segment.transitionInFrames)
        \o eventOf(exit,
                   segment.from + Max(0, segment.duration - segment.transitionOutFrames),
                   segment.transitionOutFrames)

\* the body of the forEach of collectTransitionEvents; index counts from 0 and
\* the id `${plan.id}-transition-${index}` is the triple of its parts
transitionEvents(segment, index, framesPerSecond) ==
    LET plan == segment.segment
        transition == plan.transitionOut
        startFrame == segment.from + Max(0, segment.duration - segment.transitionOutFrames)
        durationInFrames ==
            IF IsSome(transition[1].duration)
            THEN Max(1, Round(transition[1].duration[1] * framesPerSecond, TicksPerSecond))
            ELSE Max(1, segment.transitionOutFrames)
        normalized == normalizeSfx(transition[1].sfx)
    IN  IF ~IsSome(transition) \/ ~IsSome(transition[1].sfx) \/ Len(transition[1].sfx[1]) = 0
        THEN <<>>
        ELSE IF ~IsSome(normalized)
             THEN <<>>
             ELSE << [id |-> <<"transition", plan.id, index>>,
                      src |-> normalized[1],
                      startFrame |-> startFrame,
                      durationInFrames |-> durationInFrames,
                      gainDb |-> None,
                      ducking |-> FALSE] >>

RECURSIVE collectTransitionEvents(_, _)
collectTransitionEvents(placed, framesPerSecond) ==
    IF Len(placed) = 0
    THEN <<>>
    ELSE collectTransitionEvents(SubSeq(placed, 1, Len(placed) - 1), framesPerSecond)
         \o transitionEvents(placed[Len(placed)], Len(placed) - 1, framesPerSecond)

\* Array.prototype.sort with (a, b) => a.startFrame - b.startFrame: stable,
\* so an element goes behind every element that does not start after it
insertByStartFrame(sorted, event) ==
    LET k == Cardinality({ i \in 1..Len(sorted) : sorted[i].startFrame <= event.startFrame })
    IN  SubSeq(sorted, 1, k) \o <<event>> \o SubSeq(sorted, k + 1, Len(sorted))

RECURSIVE sortByStartFrame(_)
sortByStartFrame(list) ==
    IF Len(list) = 0
    THEN <<>>
    ELSE insertByStartFrame(sortByStartFrame(SubSeq(list, 1, Len(list) - 1)), list[Len(list)])

\* scheduling that gives up as soon as one highlight or transition yields
\* no event
scheduleEventsAborting(list, placed, framesPerSecond) ==
    IF \/ \E i \in 1..Len(list) : highlightEvents(list[i], framesPerSecond) = <<>>
       \/ \E i \in 1..Len(placed) : transitionEvents(placed[i], i - 1, framesPerSecond) = <<>>
    THEN <<>>
    ELSE sortByStartFrame(collectHighlightEvents(list, framesPerSecond)
                          \o collectTransitionEvents(placed, framesPerSecond))

\* the events in collection order, unsorted
scheduleEventsUnsorted(list, placed, framesPerSecond) ==
    collectHighlightEvents(list, framesPerSecond)
    \o collectTransitionEvents(placed, framesPerSecond)

\* the events of SfxLayer, in the order it renders them
scheduleEvents(list, placed, framesPerSecond) ==
    sortByStartFrame(collectHighlightEvents(list, framesPerSecond)
                     \o collectTransitionEvents(placed, framesPerSecond))

\* FinalComposition handing every highlight to SfxLayer
sanitizeHighlightsKeepAll(list) == SelectSeq(list, LAMBDA highlight : TRUE)

\* components/Transitions.tsx FinalComposition
sanitizeHighlights(list) == SelectSeq(list, LAMBDA highlight : highlight.duration > 0)

\* components/Transitions.tsx
DEFAULT_TRANSITION_SECONDS == (3 * TicksPerSecond) \div 4

---------------------------------------------------------------------------
(* Plans of the composition: segments whose transitions may carry an sfx
   reference, and highlights *)

MaxSfxSegments == 2

MaxHighlights == 2

SfxTransition(type, duration, sfx) ==
    [type |-> type, duration |-> duration, direction |-> None,
     intensity |-> None, sfx |-> sfx]

SfxSegment(transitionIn, transitionOut, silenceAfter) ==
    [duration |-> TicksPerSecond, transitionIn |-> transitionIn,
     transitionOut |-> transitionOut, silenceAfter |-> silenceAfter]

SfxSegmentPool ==
    { SfxSegment(None, None, TRUE),
      SfxSegment(None, Some(SfxTransition("slide", Some(2 * TicksPerSecond), Some(Req.popRelative))), TRUE),
      SfxSegment(None, Some(SfxTransition("slide", Some(2 * TicksPerSecond), Some(Req.popRelative))), FALSE),
      SfxSegment(None, Some(SfxTransition("crossfade", None, Some(Req.blank))), TRUE),
      SfxSegment(None, Some(SfxTransition("crossfade", None, None)), TRUE),
      SfxSegment(Some(SfxTransition("crossfade", Some(TicksPerSecond \div 4), Some(Req.zapBare))), None, TRUE),
      SfxSegment(Some(SfxTransition("crossfade", None, Some(Req.blank))), None, TRUE) }

\* the lists of at most max elements of a pool, each element given its
\* position as id
ListsWithIds(pool, max) ==
    UNION { { [i \in 1..n |-> [id |-> i] @@ choice[i]] : choice \in [1..n -> pool] } :
            n \in 0..max }

SfxSegmentLists == ListsWithIds(SfxSegmentPool, MaxSfxSegments)

Highlight(type, icon, start, duration, sfx, gain, volume, ducking) ==
    [type |-> type, icon |-> icon, name |-> None, start |-> start,
     duration |-> duration, sfx |-> sfx, gain |-> gain, volume |-> volume,
     ducking |-> ducking]

HighlightPool ==
    { Highlight("noteBox", None, 0, TicksPerSecond \div 2, Some(Req.popRelative), None, None, None),
      Highlight("noteBox", None, TicksPerSecond \div 2, TicksPerSecond \div 2, Some(Req.zapCustom),
                Some(0 - 3 * MilliDb), None, Some(FALSE)),
      Highlight("noteBox", None, TicksPerSecond \div 2, TicksPerSecond \div 2, Some(Req.popFile),
                None, Some(PerMille \div 2), None),
      Highlight("noteBox", None, 0, TicksPerSecond \div 2, Some(Req.empty), None, None, None),
      Highlight("noteBox", None, 0, TicksPerSecond \div 2, None, None, None, None),
      Highlight("icon", Some(Req.iconRocket), TicksPerSecond, TicksPerSecond \div 2, None, None, None, None),
      Highlight("noteBox", None, 0, 0, Some(Req.popRelative), None, None, None) }

HighlightLists == ListsWithIds(HighlightPool, MaxHighlights)

---------------------------------------------------------------------------
(* components/SfxLayer.tsx: the gain envelope.  Gains and amplitudes are in
   millionths; a product of two of them is taken in thousandths of one
   factor so that it stays within 32 bits. *)

MaxEventFrames == 30

\* Math.pow(10, db / 20) for the gains in use; 20 * log10(1/2) and
\* 20 * log10(1/4) are the keys -6021 and -12041
dbToGain(db) ==
    CASE db = 6 * MilliDb -> 1995262
      [] db = 0 -> Micro
      [] db = 0 - MilliDb -> 891251
      [] db = 0 - 3 * MilliDb -> 707946
      [] db = 0 - 4 * MilliDb -> 630957
      [] db = 0 - 6 * MilliDb -> 501187
      [] db = 0 - 6021 -> Micro \div 2
      [] db = 0 - 10 * MilliDb -> 316228
      [] db = 0 - 12041 -> Micro \div 4
      [] db = 0 - 24 * MilliDb -> 63096
      [] db = 0 - 36 * MilliDb -> 15849

\* the envelope without its two ceilings
buildVolumeEnvelopeUnclamped(event, audio, framesPerSecond, frame) ==
    LET baseDb == IF IsSome(event.gainDb) THEN event.gainDb[1] ELSE audio.sfxBaseGainDb
        baseGain == dbToGain(baseDb)
        duckGain == dbToGain(audio.voiceDuckDb)
        attackFrames == Max(1, Round(framesPerSecond * 30, 100))
        releaseFrames == Max(1, Round(framesPerSecond * 30, 100))
        fadeInFrames == Max(1, Round(framesPerSecond * 12, 100))
        fadeOutFrames == Max(1, Round(framesPerSecond * 16, 100))
        remaining == event.durationInFrames - frame
        duckMultiplier ==
            IF event.ducking
            THEN duckGain + ((Micro - duckGain) * Min(frame, attackFrames)) \div attackFrames
            ELSE Micro
        ducked == (baseGain * (duckMultiplier \div 1000)) \div 1000
        fadedIn == (ducked * Min(frame, fadeInFrames)) \div fadeInFrames
        fadedOut == (fadedIn * Max(0, Min(remaining, fadeOutFrames))) \div fadeOutFrames
        amplitudeAtFrame == (fadedOut * Max(0, Min(remaining, releaseFrames))) \div releaseFrames
    IN  amplitudeAtFrame

\* buildVolumeEnvelope(event, audioConfig, fps)(frame)
buildVolumeEnvelope(event, audio, framesPerSecond, frame) ==
    LET baseDb == IF IsSome(event.gainDb) THEN event.gainDb[1] ELSE audio.sfxBaseGainDb
        baseGain == Min(dbToGain(baseDb), dbToGain(0 - 6 * MilliDb))
        duckGain == dbToGain(audio.voiceDuckDb)
        attackFrames == Max(1, Round(framesPerSecond * 30, 100))
        releaseFrames == Max(1, Round(framesPerSecond * 30, 100))
        fadeInFrames == Max(1, Round(framesPerSecond * 12, 100))
        fadeOutFrames == Max(1, Round(framesPerSecond * 16, 100))
        remaining == event.durationInFrames - frame
        duckMultiplier ==
            IF event.ducking
            THEN duckGain + ((Micro - duckGain) * Min(frame, attackFrames)) \div attackFrames
            ELSE Micro
        ducked == (baseGain * (duckMultiplier \div 1000)) \div 1000
        fadedIn == (ducked * Min(frame, fadeInFrames)) \div fadeInFrames
        fadedOut == (fadedIn * Max(0, Min(remaining, fadeOutFrames))) \div fadeOutFrames
        amplitudeAtFrame == (fadedOut * Max(0, Min(remaining, releaseFrames))) \div releaseFrames
    IN  Min(amplitudeAtFrame, dbToGain(0 - 6 * MilliDb))

\* the events SfxLayer may hand to an envelope: an explicit gain, a gain
\* derived from a legacy volume, or none
EnvelopeGains ==
    {None, Some(6 * MilliDb), Some(0), Some(0 - 3 * MilliDb),
     Some(volumeToDb(PerMille \div 2)), Some(volumeToDb(PerMille \div 4))}

EnvelopeEvents ==
    [id : {<<"highlight", 1>>},
     src : {CanonicalPop},
     startFrame : {0},
     durationInFrames : {1, MaxEventFrames \div 2, MaxEventFrames},
     gainDb : EnvelopeGains,
     ducking : BOOLEAN]

\* highlights that carry a sound: with and without an explicit gain, with
\* and without a legacy volume (z.number().min(0).max(1)), 0.5 s or 1 s long
EnvelopeHighlights ==
    { [id |-> 1] @@
      Highlight("noteBox", None, 0, duration, Some(Req.popRelative), gain, volume, ducking) :
        duration \in {TicksPerSecond \div 2, TicksPerSecond},
        gain \in {None, Some(0), Some(0 - 3 * MilliDb)},
        volume \in {None, Some(0), Some(PerMille \div 4), Some(PerMille \div 2), Some(PerMille)},
        ducking \in {None, Some(FALSE)} }

\* the audio configurations resolveRuntimeConfig can return
AudioConfigs ==
    [voiceDuckDb : {0 - 24 * MilliDb, 0 - 4 * MilliDb, 0},
     sfxBaseGainDb : {0 - 36 * MilliDb, 0 - 10 * MilliDb, 0 - MilliDb}]

---------------------------------------------------------------------------
(* config.ts: module-level defaults, in thousandths of a decibel *)

AUDIO == [voiceDuckDb |-> 0 - 4 * MilliDb, sfxBaseGainDb |-> 0 - 10 * MilliDb]

---------------------------------------------------------------------------
(* config.ts: resolveRuntimeConfig.  A JavaScript value is a record tagged
   with its kind; decibels are in thousandths.  A property that is absent
   is None. *)

\* undefined, null and NaN
JsPlain(kind) == [kind |-> kind]

JsNumber(value) == [kind |-> "number", value |-> value]

JsBoolean(truth) == [kind |-> "boolean", truth |-> truth]

JsString(text) == [kind |-> "string", text |-> text]

DigitChars == <<"0", "1", "2", "3", "4", "5", "6", "7", "8", "9">>

IsDigits(text) ==
    Len(text) > 0 /\ \A i \in 1..Len(text) : \E d \in 1..10 : DigitChars[d] = text[i]

RECURSIVE digitsValue(_)
digitsValue(text) ==
    IF Len(text) = 0
    THEN 0
    ELSE 10 * digitsValue(SubSeq(text, 1, Len(text) - 1))
         + (CHOOSE d \in 1..10 : DigitChars[d] = text[Len(text)]) - 1

\* Number(input), of the decibel values a configuration may hold: None is NaN
toNumber(input) ==
    CASE input.kind = "number" -> Some(input.value)
      [] input.kind = "undefined" -> None
      [] input.kind = "nan" -> None
      [] input.kind = "null" -> Some(0)
      [] input.kind = "boolean" -> Some(IF input.truth THEN MilliDb ELSE 0)
      [] input.kind = "string" ->
            LET text == trim(input.text)
            IN  IF Len(text) = 0 THEN Some(0)
                ELSE IF IsDigits(text) THEN Some(digitsValue(text) * MilliDb)
                ELSE IF text[1] = "-" /\ IsDigits(Tail(text))
                     THEN Some(0 - digitsValue(Tail(text)) * MilliDb)
                ELSE None

clampNumber(value, min, max) == Min(Max(value, min), max)

normalizeNumber(input, fallback, min, max) ==
    LET numeric == toNumber(input)
    IN  IF ~IsSome(numeric) THEN fallback ELSE clampNumber(numeric[1], min, max)

\* the value of a property after {...defaults, ...(overrides?.audio ?? {})}
spreadOver(default, overrides_, field) ==
    IF IsSome(overrides_) /\ IsSome(overrides_[1].audio) /\ IsSome(overrides_[1].audio[1][field])
    THEN overrides_[1].audio[1][field][1]
    ELSE JsNumber(default)

\* the audio part of resolveRuntimeConfig
resolveRuntimeConfig(defaults, overrides_) ==
    [voiceDuckDb |->
         normalizeNumber(spreadOver(defaults.voiceDuckDb, overrides_, "voiceDuckDb"),
                         defaults.voiceDuckDb, 0 - 24 * MilliDb, 0),
     sfxBaseGainDb |->
         normalizeNumber(spreadOver(defaults.sfxBaseGainDb, overrides_, "sfxBaseGainDb"),
                         defaults.sfxBaseGainDb, 0 - 36 * MilliDb, 0 - MilliDb)]

OverrideValues ==
    { JsNumber(0 - 40 * MilliDb), JsNumber(0 - 12 * MilliDb), JsNumber(0 - MilliDb \div 2),
      JsNumber(5 * MilliDb),
      JsPlain("undefined"), JsPlain("null"), JsPlain("nan"), JsBoolean(TRUE),
      JsString(<<>>), JsString(<<"a", "b", "c">>), JsString(<<"-", "1", "2">>) }

OverrideProperties == {None} \cup { Some(value) : value \in OverrideValues }

OverrideChoices ==
    {None, Some([audio |-> None])}
    \cup { Some([audio |-> Some([voiceDuckDb |-> duck, sfxBaseGainDb |-> base])]) :
              duck \in OverrideProperties, base \in OverrideProperties }

---------------------------------------------------------------------------
(* data/planSchema.ts: the transition part of parsePlan.  A schema returns
   an optional value, None when zod raises a ZodError. *)

MaxPlanSegments == 2

\* value.trim().replace(/[\s_-]+/g, '').toLowerCase()
normalizeTransitionToken(value) ==
    toLowerCase(SelectSeq(trim(value), LAMBDA c : c \notin {" ", "_", "-"}))

TransitionTokenEnum ==
    { <<"c", "u", "t">>, <<"f", "a", "d", "e", "c", "a", "m", "e", "r", "a">>, <<"s", "l", "i", "d", "e", "w", "h", "o", "o", "s", "h">>,
      <<"c", "r", "o", "s", "s", "f", "a", "d", "e">>, <<"s", "l", "i", "d", "e">>, <<"z", "o", "o", "m">>,
      <<"s", "c", "a", "l", "e">>, <<"r", "o", "t", "a", "t", "e">>, <<"b", "l", "u", "r">> }

transitionTypeSchema(value) ==
    LET token == normalizeTransitionToken(value)
    IN  IF token \notin TransitionTokenEnum
        THEN None
        ELSE IF token = <<"c", "u", "t">> THEN Some("cut")
        ELSE IF token \in {<<"s", "l", "i", "d", "e", "w", "h", "o", "o", "s", "h">>, <<"s", "l", "i", "d", "e">>} THEN Some("slideWhoosh")
        ELSE Some("fadeCamera")

\* value is an optional raw transition
transitionPlanSchema(value) ==
    IF ~IsSome(value)
    THEN Some(None)
    ELSE LET type == transitionTypeSchema(value[1].type)
         IN  IF IsSome(type) THEN Some(Some(Transition(type[1], value[1].duration))) ELSE None

segmentPlanSchema(value) ==
    LET transitionIn == transitionPlanSchema(value.transitionIn)
        transitionOut == transitionPlanSchema(value.transitionOut)
    IN  IF IsSome(transitionIn) /\ IsSome(transitionOut)
        THEN Some([duration |-> value.duration,
                   transitionIn |-> transitionIn[1],
                   transitionOut |-> transitionOut[1],
                   silenceAfter |-> value.silenceAfter])
        ELSE None

parsePlan(data) ==
    LET parsed == [i \in 1..Len(data.segments) |-> segmentPlanSchema(data.segments[i])]
    IN  IF \E i \in 1..Len(parsed) : ~IsSome(parsed[i])
        THEN None
        ELSE Some([segments |-> [i \in 1..Len(parsed) |-> parsed[i][1]],
                   highlights |-> data.highlights])

\* the transition type tokens of raw plans: canonical, spelled with
\* separators and capitals, and unknown to the schema
RawTransitionTypes ==
    { <<"c", "u", "t">>, <<"F", "a", "d", "e", "_", "C", "a", "m", "e", "r", "a">>, <<" ", "s", "l", "i", "d", "e", "-", "w", "h", "o", "o", "s", "h", " ">>,
      <<"c", "r", "o", "s", "s", "f", "a", "d", "e">>, <<"z", "o", "o", "m">>, <<"w", "i", "p", "e">> }

RawSegmentPool ==
    [duration : {TicksPerSecond},
     transitionIn : {None, Some([type |-> <<"c", "u", "t">>, duration |-> None])},
     transitionOut : {None} \cup { Some([type |-> type, duration |-> Some(TicksPerSecond \div 2)]) :
                                      type \in RawTransitionTypes },
     silenceAfter : {TRUE}]

RawPlans ==
    [segments : UNION { [1..n -> RawSegmentPool] : n \in 0..MaxPlanSegments },
     highlights : {<<>>}]

---------------------------------------------------------------------------
(* The parts of the state a specification does not exercise stay as they
   are after module load *)

AtRest(groups) ==
    /\ IF "timeline" \in groups
       THEN /\ segments = <<>>
            /\ fps = VIDEO_FPS
            /\ fallbackTransitionSeconds = TicksPerSecond \div 2
            /\ timeline = <<>>
            /\ totalDurationInFrames = 0
       ELSE TRUE
    /\ IF "curve" \in groups
       THEN /\ evalTransition = None
            /\ evalProgress = 0
            /\ evalPhase = "in"
            /\ style = EmptyStyle
       ELSE TRUE
    /\ IF "sfx" \in groups
       THEN /\ highlights = <<>>
            /\ sanitizedHighlights = <<>>
            /\ audioConfig = AUDIO
            /\ events = <<>>
            /\ rendered = <<>>
       ELSE TRUE
    /\ IF "resolve" \in groups
       THEN /\ sfxRequest = None
            /\ sfxResolved = None
       ELSE TRUE
    /\ IF "envelope" \in groups
       THEN /\ envEvent = None
            /\ envFrame = 0
            /\ amplitude = 0
       ELSE TRUE
    /\ IF "config" \in groups
       THEN /\ overrides = None
            /\ runtimeConfig = None
            /\ audioDefaults = AUDIO
       ELSE TRUE
    /\ IF "parse" \in groups
       THEN /\ parseInput = None
            /\ parseResult = None
       ELSE TRUE
    /\ IF "clip" \in groups
       THEN clip = None
       ELSE TRUE
    /\ IF "metadata" \in groups
       THEN props = None /\ metadata = None
       ELSE TRUE

---------------------------------------------------------------------------
(* State machine of the timeline compilation *)

Init ==
    /\ segments \in SegmentLists
    /\ fps = VIDEO_FPS
    /\ fallbackTransitionSeconds \in FallbackChoices
    /\ timeline = <<>>
    /\ totalDurationInFrames = 0
    /\ pc = "plan"
    /\ evalTransition = None
    /\ evalProgress = 0
    /\ evalPhase = "in"
    /\ style = EmptyStyle
    /\ AtRest({"sfx", "resolve", "envelope", "config", "parse", "clip", "metadata"})

\* components/VideoTimeline.tsx buildTimelineMetadata
BuildTimelineMetadata ==
    /\ pc = "plan"
    /\ LET built == buildTimeline(segments, fps, fallbackTransitionSeconds)
       IN  /\ timeline' = built
           /\ totalDurationInFrames' = getPlanDuration(built)
    /\ pc' = "built"
    /\ UNCHANGED <<segments, fps, fallbackTransitionSeconds>>
    /\ UNCHANGED <<curveVars, sfxVars, resolveVars, envelopeVars, configVars, parseVars, clip, metadataVars>>

Next == BuildTimelineMetadata

Spec == Init /\ [][Next]_vars

---------------------------------------------------------------------------
(* State machine of the transition curve evaluation: the renderer evaluates
   a transition at arbitrary progress values, in any order *)

CurveInit ==
    /\ segments = <<>>
    /\ fps = VIDEO_FPS
    /\ fallbackTransitionSeconds = TicksPerSecond \div 2
    /\ timeline = <<>>
    /\ totalDurationInFrames = 0
    /\ pc = "curve"
    /\ evalTransition = None
    /\ evalProgress = 0
    /\ evalPhase = "in"
    /\ style = EmptyStyle
    /\ AtRest({"sfx", "resolve", "envelope", "config", "parse", "clip", "metadata"})

EvaluateTransitionStyle ==
    /\ pc = "curve"
    /\ \E transition \in CurveTransitionChoices, progress \in ProgressChoices,
          phase \in {"in", "out"} :
          /\ evalTransition' = transition
          /\ evalProgress' = progress
          /\ evalPhase' = phase
          /\ style' = evaluateTransitionStyle(transition, progress,
                          VIDEO_WIDTH, VIDEO_HEIGHT, phase)
    /\ UNCHANGED <<timelineVars, sfxVars, resolveVars, envelopeVars, configVars, parseVars, clip, metadataVars>>

CurveNext == EvaluateTransitionStyle

CurveSpec == CurveInit /\ [][CurveNext]_vars

---------------------------------------------------------------------------
(* State machine of the asset path resolution: normalizeSfx is called on one
   sfx reference after another *)

ResolveInit ==
    /\ pc = "resolve"
    /\ AtRest({"timeline", "curve", "sfx", "resolve", "envelope", "config", "parse", "clip", "metadata"})

\* the collectors resolve a reference and store the result as event.src
NormalizeSfx ==
    /\ pc = "resolve"
    /\ \E value \in SfxRequests :
          /\ sfxRequest' = value
          /\ sfxResolved' = normalizeSfx(value)
    /\ rendered' = <<>>
    /\ UNCHANGED <<highlights, sanitizedHighlights, audioConfig, events>>
    /\ UNCHANGED <<pc, timelineVars, curveVars, envelopeVars, configVars, parseVars, clip, metadataVars>>

\* SfxLayer resolves event.src once more when it renders the event
RenderSfxEvent ==
    /\ pc = "resolve"
    /\ IsSome(sfxResolved)
    /\ rendered = <<>>
    /\ rendered' = <<normalizeSfx(sfxResolved)>>
    /\ UNCHANGED <<highlights, sanitizedHighlights, audioConfig, events>>
    /\ UNCHANGED <<resolveVars, pc, timelineVars, curveVars, envelopeVars, configVars,
                   parseVars, clip, metadataVars>>

ResolveNext == NormalizeSfx \/ RenderSfxEvent

ResolveSpec == ResolveInit /\ [][ResolveNext]_vars

---------------------------------------------------------------------------
(* State machine of the composition: FinalComposition compiles the timeline
   of the active plan, drops the degenerate highlights and renders SfxLayer *)

CompositionInit ==
    /\ pc = "composition"
    /\ segments \in SfxSegmentLists
    /\ highlights \in HighlightLists
    /\ fps = VIDEO_FPS
    /\ fallbackTransitionSeconds = DEFAULT_TRANSITION_SECONDS
    /\ timeline = <<>>
    /\ totalDurationInFrames = 0
    /\ sanitizedHighlights = <<>>
    /\ audioConfig = AUDIO
    /\ events = <<>>
    /\ rendered = <<>>
    /\ AtRest({"curve", "resolve", "envelope", "config", "parse", "clip", "metadata"})

RenderFinalComposition ==
    /\ pc = "composition"
    /\ pc' = "rendered"
    /\ timeline' = buildTimeline(segments, fps, fallbackTransitionSeconds)
    /\ totalDurationInFrames' = Max(1, getPlanDuration(timeline'))
    /\ sanitizedHighlights' = sanitizeHighlights(highlights)
    /\ events' = scheduleEvents(sanitizedHighlights', timeline', fps)
    /\ rendered' = [i \in 1..Len(events') |-> normalizeSfx(Some(events'[i].src))]
    /\ UNCHANGED <<segments, fps, fallbackTransitionSeconds, highlights, audioConfig>>
    /\ UNCHANGED <<curveVars, resolveVars, envelopeVars, configVars, parseVars, clip, metadataVars>>

CompositionNext == RenderFinalComposition

CompositionSpec == CompositionInit /\ [][CompositionNext]_vars

---------------------------------------------------------------------------
(* State machine of the gain envelope: the renderer asks the volume callback
   of one event for the amplitude at one frame offset after another *)

\* SfxLayer has scheduled one event, either any event of EnvelopeEvents or
\* the event of a highlight
EnvelopeInit ==
    /\ pc = "envelope"
    /\ \/ /\ highlights = <<>>
          /\ envEvent \in { Some(event) : event \in EnvelopeEvents }
       \/ /\ highlights \in { <<highlight>> : highlight \in EnvelopeHighlights }
          /\ envEvent = Some(highlightEvents(highlights[1], VIDEO_FPS)[1])
    /\ audioConfig \in AudioConfigs
    /\ envFrame = 0
    /\ amplitude = 0
    /\ sanitizedHighlights = <<>>
    /\ events = <<>> /\ rendered = <<>>
    /\ AtRest({"timeline", "curve", "resolve", "config", "parse", "clip", "metadata"})

EvaluateEnvelope ==
    /\ pc = "envelope"
    /\ \E frame \in 0..Min(envEvent[1].durationInFrames, MaxEventFrames) :
          /\ envFrame' = frame
          /\ amplitude' = buildVolumeEnvelope(envEvent[1], audioConfig, fps, frame)
    /\ UNCHANGED <<envEvent, timelineVars, curveVars, sfxVars, resolveVars, configVars, parseVars, clip, metadataVars>>

EnvelopeNext == EvaluateEnvelope

EnvelopeSpec == EnvelopeInit /\ [][EnvelopeNext]_vars

---------------------------------------------------------------------------
(* State machine of the configuration: FinalComposition resolves the
   overrides it was given *)

ConfigInit ==
    /\ pc = "config"
    /\ overrides \in OverrideChoices
    /\ runtimeConfig = None
    /\ audioDefaults = AUDIO
    /\ AtRest({"timeline", "curve", "sfx", "resolve", "envelope", "parse", "clip", "metadata"})

ResolveRuntimeConfig ==
    /\ pc = "config"
    /\ pc' = "configured"
    /\ runtimeConfig' = Some([audio |-> resolveRuntimeConfig(audioDefaults, overrides)])
    /\ UNCHANGED <<overrides, audioDefaults>>
    /\ UNCHANGED <<segments, fps, fallbackTransitionSeconds, timeline, totalDurationInFrames>>
    /\ UNCHANGED <<curveVars, sfxVars, resolveVars, envelopeVars, parseVars, clip, metadataVars>>

ConfigNext == ResolveRuntimeConfig

ConfigSpec == ConfigInit /\ [][ConfigNext]_vars

---------------------------------------------------------------------------
(* State machine of the plan loading: the raw plan is parsed; a plan that
   parses is the plan the timeline builder receives *)

PlanInit ==
    /\ pc = "raw"
    /\ parseInput \in { Some(data) : data \in RawPlans }
    /\ parseResult = None
    /\ AtRest({"timeline", "curve", "sfx", "resolve", "envelope", "config", "clip", "metadata"})

ParsePlan ==
    /\ pc = "raw"
    /\ parseResult' = parsePlan(parseInput[1])
    /\ pc' = IF IsSome(parseResult') THEN "parsed" ELSE "rejected"
    /\ segments' = IF IsSome(parseResult') THEN parseResult'[1].segments ELSE segments
    /\ UNCHANGED <<parseInput, fps, fallbackTransitionSeconds, timeline, totalDurationInFrames>>
    /\ UNCHANGED <<curveVars, sfxVars, resolveVars, envelopeVars, configVars, clip, metadataVars>>

PlanNext == ParsePlan

PlanSpec == PlanInit /\ [][PlanNext]_vars

---------------------------------------------------------------------------
(* State machine of the video layer: VideoTimeline builds the timeline and
   every Sequence renders its SegmentClip frame by frame *)

ClipInit ==
    /\ segments \in ClipSegmentLists
    /\ fps = VIDEO_FPS
    /\ fallbackTransitionSeconds = TicksPerSecond \div 8
    /\ timeline = <<>>
    /\ totalDurationInFrames = 0
    /\ pc = "timelineProps"
    /\ clip = None
    /\ AtRest({"curve", "sfx", "resolve", "envelope", "config", "parse", "metadata"})

\* components/VideoTimeline.tsx VideoTimeline
RenderVideoTimeline ==
    /\ pc = "timelineProps"
    /\ LET built == buildTimeline(segments, fps, fallbackTransitionSeconds)
       IN  /\ timeline' = built
           /\ totalDurationInFrames' = getPlanDuration(built)
    /\ pc' = "sequences"
    /\ UNCHANGED <<segments, fps, fallbackTransitionSeconds, clip, metadataVars>>
    /\ UNCHANGED <<curveVars, sfxVars, resolveVars, envelopeVars, configVars, parseVars>>

\* playback: a Sequence renders its clip from its first local frame on, one
\* frame after the other; the component caps the frame to [0, duration]
RenderSegmentClip ==
    /\ pc = "sequences"
    /\ \E index \in 1..Len(timeline) :
          \E frame \in 0..timeline[index].duration :
              /\ IF IsSome(clip)
                 THEN index = clip[1].index /\ frame = clip[1].frame + 1
                 ELSE frame = 0
              /\ clip' = Some([SegmentClip(timeline[index], fps, frame)
                                  EXCEPT !.index = index])
    /\ UNCHANGED <<timelineVars, curveVars, sfxVars, resolveVars, envelopeVars,
                   configVars, parseVars, metadataVars>>

ClipNext == RenderVideoTimeline \/ RenderSegmentClip

ClipSpec == ClipInit /\ [][ClipNext]_vars

---------------------------------------------------------------------------
(* Root.tsx: the FinalVideo composition is registered with the duration
   calculateMetadata computes from the input props, then FinalComposition
   renders with the same props.  A plan is its list of segments. *)

\* plans of segments of 1 s and 2 s without transitions
MetadataPlans ==
    UNION { [1..n -> { [duration |-> d, transitionIn |-> None, transitionOut |-> None,
                        silenceAfter |-> TRUE] : d \in {TicksPerSecond, 2 * TicksPerSecond} }] :
            n \in 0..MaxPlanSegments }

\* the plan loadActivePlan resolves to, None when it throws; file is the
\* plan parsed from the file at planPath, None when it cannot be loaded
loadActivePlan(given) ==
    IF IsSome(given.plan)
    THEN given.plan
    ELSE IF ~given.planPath
    THEN None
    ELSE given.file

\* props.plan is an inline plan or null, planPath is set or empty, and the
\* file at planPath holds a plan or fails to load
MetadataInit ==
    /\ props \in { Some(given) :
                     given \in [plan : {None} \cup { Some(plan) : plan \in MetadataPlans },
                                planPath : BOOLEAN,
                                file : {None} \cup { Some(plan) : plan \in MetadataPlans }] }
    /\ metadata = None
    /\ pc = "registering"
    /\ segments = <<>>
    /\ fps = VIDEO_FPS
    /\ fallbackTransitionSeconds = DEFAULT_TRANSITION_SECONDS
    /\ timeline = <<>>
    /\ totalDurationInFrames = 0
    /\ AtRest({"curve", "sfx", "resolve", "envelope", "config", "parse", "clip"})

\* calculateMetadata: durationInFrames of the plan loadActivePlan selects;
\* the composition is not registered when loadActivePlan throws
CalculateMetadata ==
    /\ pc = "registering"
    /\ LET plan == loadActivePlan(props[1])
       IN  IF IsSome(plan)
           THEN /\ metadata' =
                      Some([durationInFrames |->
                                Max(1, getPlanDuration(buildTimeline(plan[1], VIDEO_FPS,
                                                           fallbackTransitionSeconds)))])
                /\ pc' = "registered"
           ELSE /\ metadata' = None
                /\ pc' = "failed"
    /\ UNCHANGED <<props, segments, fps, fallbackTransitionSeconds, timeline,
                   totalDurationInFrames>>
    /\ UNCHANGED <<curveVars, sfxVars, resolveVars, envelopeVars, configVars, parseVars, clip>>

\* FinalComposition: usePlan is enabled by a planPath and has either no
\* plan yet (loading, or the load failed) or the plan of the file; the
\* active plan is loadedPlan ?? plan ?? null
RenderRegisteredComposition ==
    /\ pc = "registered"
    /\ \E loadedPlan \in {None} \cup (IF props[1].planPath THEN {props[1].file} ELSE {}) :
          LET activePlan == IF IsSome(loadedPlan) THEN loadedPlan ELSE props[1].plan
          IN  IF ~IsSome(activePlan)
              THEN /\ pc' = "loading"
                   /\ segments' = <<>>
                   /\ timeline' = <<>>
                   /\ totalDurationInFrames' = fps * 10
              ELSE /\ pc' = IF IsSome(loadedPlan) THEN "file" ELSE "inline"
                   /\ segments' = activePlan[1]
                   /\ timeline' = buildTimeline(activePlan[1], fps, fallbackTransitionSeconds)
                   /\ totalDurationInFrames' = Max(1, getPlanDuration(timeline'))
    /\ UNCHANGED <<props, metadata, fps, fallbackTransitionSeconds>>
    /\ UNCHANGED <<curveVars, sfxVars, resolveVars, envelopeVars, configVars, parseVars, clip>>

MetadataNext == CalculateMetadata \/ RenderRegisteredComposition

MetadataSpec == MetadataInit /\ [][MetadataNext]_vars

---------------------------------------------------------------------------
(* Properties of the timeline builder *)

Built == pc = "built"

IsCut(transition) == IsSome(transition) /\ transition[1].type = "cut"

\* the overlap of the placed segments i and i+1
OverlapAt(i) ==
    Max(timeline[i].transitionOutFrames, timeline[i + 1].transitionInFrames)

\* C1: buildTimeline places segment 0 at frame 0 and every later segment at
\* the end of the previous placed segment minus the larger of the previous
\* segment's transitionOutFrames and its own transitionInFrames.
C1_Placement ==
    Built =>
        /\ Len(timeline) = Len(segments)
        /\ Len(timeline) > 0 => timeline[1].from = 0
        /\ \A i \in 1..(Len(timeline) - 1) :
              timeline[i + 1].from =
                  timeline[i].from + timeline[i].duration - OverlapAt(i)

\* a pair whose two overlap requests are positive and differ
C1_Witness ==
    /\ Built
    /\ \E i \in 1..(Len(timeline) - 1) :
          /\ timeline[i].transitionOutFrames > 0
          /\ timeline[i + 1].transitionInFrames > 0
          /\ timeline[i].transitionOutFrames # timeline[i + 1].transitionInFrames
          /\ timeline[i + 1].from > 0

\* C2: for every adjacent pair of placed segments the overlap is >= 0 and
\* at most half of the shorter of the two durations.
C2_OverlapWithinHalfOfBoth ==
    Built =>
        \A i \in 1..(Len(timeline) - 1) :
            /\ OverlapAt(i) >= 0
            /\ 2 * OverlapAt(i) <= Min(timeline[i].duration, timeline[i + 1].duration)

\* C3: every placed segment starts at a frame >= 0.
C3_StartNonNegative ==
    Built => \A i \in 1..Len(timeline) : timeline[i].from >= 0

\* C4: every placed record has integer duration = max(1, round(duration*fps))
\* >= 1 and integer transitionInFrames and transitionOutFrames, each in
\* [0, duration/2].
C4_FrameCounts ==
    Built =>
        \A i \in 1..Len(timeline) :
            /\ timeline[i].duration \in Nat
            /\ timeline[i].duration =
                  Max(1, Round(segments[i].duration * fps, TicksPerSecond))
            /\ timeline[i].duration >= 1
            /\ timeline[i].transitionInFrames \in Nat
            /\ timeline[i].transitionOutFrames \in Nat
            /\ 2 * timeline[i].transitionInFrames <= timeline[i].duration
            /\ 2 * timeline[i].transitionOutFrames <= timeline[i].duration

\* a segment whose duration rounds to 0 frames, next to one whose transition
\* is truncated to half of its duration
C4_Witness ==
    /\ Built
    /\ \E i, j \in 1..Len(timeline) :
          /\ Round(segments[i].duration * fps, TicksPerSecond) = 0
          /\ timeline[i].duration = 1
          /\ timeline[j].duration > 1
          /\ 2 * timeline[j].transitionOutFrames = timeline[j].duration
          /\ timeline[j].transitionInFrames > 0

\* C5: a side of a placed segment whose resolved transition has type cut
\* has 0 transition frames.
C5_CutResolvesToZero ==
    Built =>
        \A i \in 1..Len(timeline) :
            /\ IsCut(timeline[i].segment.transitionIn)
                  => timeline[i].transitionInFrames = 0
            /\ IsCut(timeline[i].segment.transitionOut)
                  => timeline[i].transitionOutFrames = 0

\* C6: a segment with silenceAfter = false has transitionOutFrames = 0, the
\* following placed segment has transitionInFrames = 0 and no transitionIn,
\* and the two abut with zero overlap.
C6_SilenceGating ==
    Built =>
        \A i \in 1..Len(timeline) :
            segments[i].silenceAfter = FALSE =>
                /\ timeline[i].transitionOutFrames = 0
                /\ i < Len(timeline) =>
                      /\ timeline[i + 1].transitionInFrames = 0
                      /\ timeline[i + 1].segment.transitionIn = None
                      /\ timeline[i + 1].from = timeline[i].from + timeline[i].duration

\* a gated boundary between two one-second segments with transitions
\* authored on both sides
C6_Witness ==
    /\ Built
    /\ \E i \in 1..(Len(timeline) - 1) :
          /\ segments[i].silenceAfter = FALSE
          /\ IsSome(segments[i].transitionOut)
          /\ IsSome(segments[i + 1].transitionIn)
          /\ timeline[i].duration > 1
          /\ timeline[i + 1].duration > 1

\* three one-second segments at 30 fps, fallback 0.5 s, no transitions,
\* silenceAfter true on all, compiled
C7_Scenario ==
    /\ Built
    /\ fps = 30
    /\ fallbackTransitionSeconds * 2 = TicksPerSecond
    /\ Len(segments) = 3
    /\ \A i \in 1..3 :
          segments[i] = [duration |-> TicksPerSecond, transitionIn |-> None,
                         transitionOut |-> None, silenceAfter |-> TRUE]

\* C7 as stated: the scenario yields a total duration of 60 frames.
C7_TotalIs60 == C7_Scenario => totalDurationInFrames = 60

\* C7 amended: the scenario yields a total duration of 90 frames, the three
\* segments abutting without overlap.
C7_TotalIs90 ==
    C7_Scenario =>
        /\ totalDurationInFrames = 90
        /\ \A i \in 1..3 : timeline[i].from = 30 * (i - 1)

\* C8: the total duration is the last placed segment's from + duration, and
\* an empty segment list gives an empty timeline and a total of 0.
C8_PlanDuration ==
    Built =>
        /\ Len(segments) = 0 => (timeline = <<>> /\ totalDurationInFrames = 0)
        /\ Len(timeline) > 0 =>
              totalDurationInFrames =
                  timeline[Len(timeline)].from + timeline[Len(timeline)].duration

\* a timeline of several segments whose last one starts after frame 0
C8_Witness ==
    /\ Built
    /\ Len(timeline) >= 2
    /\ timeline[Len(timeline)].from > 0
    /\ totalDurationInFrames > timeline[Len(timeline)].from

---------------------------------------------------------------------------
(* Properties of the transition curve evaluation *)

\* C10: a transition of type cut evaluates to the identity effect at every
\* progress value and in both phases: no field set, so no translation, scale
\* 1, no rotation, no filter and opacity multiplier 1.
C10_CutIsIdentity ==
    (pc = "curve" /\ IsCut(evalTransition)) =>
        /\ style = EmptyStyle
        /\ translateXOf(style) = 0
        /\ translateYOf(style) = 0
        /\ scaleOf(style) = Micro
        /\ rotateOf(style) = 0
        /\ opacityOf(style) = Micro

\* a cut carrying a direction and an intensity, evaluated half way through
\* the exit window
C10_Witness ==
    /\ pc = "curve"
    /\ IsCut(evalTransition)
    /\ IsSome(evalTransition[1].direction)
    /\ IsSome(evalTransition[1].intensity)
    /\ evalProgress = 500
    /\ evalPhase = "out"

---------------------------------------------------------------------------
(* Further properties of the timeline builder and of the curve evaluation *)

\* C17: every frame of [0, total duration) lies inside the interval
\* [from, from + duration) of at least one placed segment, and no placed
\* segment starts after the end of the segment before it.
C17_NoGaps ==
    Built =>
        /\ 0..(totalDurationInFrames - 1) \subseteq
               UNION { timeline[i].from..(timeline[i].from + timeline[i].duration - 1) :
                       i \in 1..Len(timeline) }
        /\ \A i \in 1..(Len(timeline) - 1) :
              timeline[i + 1].from <= timeline[i].from + timeline[i].duration

\* three placed segments, the first boundary overlapping and the second
\* abutting exactly
C17_Witness ==
    /\ Built
    /\ Len(timeline) = 3
    /\ timeline[2].from < timeline[1].from + timeline[1].duration
    /\ timeline[2].from > 0
    /\ timeline[3].from = timeline[2].from + timeline[2].duration
    /\ totalDurationInFrames > timeline[3].from

IsFade(transition) ==
    IsSome(transition) /\ transition[1].type \in {"crossfade", "fadeCamera"}

\* C18: for a transition of type crossfade or fadeCamera the entering
\* opacity multiplier is 0 at progress 0 and 1 at progress 1, and the exiting
\* multiplier is 1 at the start of the exit window (fadeOutProgress 1) and 0
\* at its end (fadeOutProgress 0).
C18_FadeFollowsProgress ==
    (pc = "curve" /\ IsFade(evalTransition)) =>
        /\ (evalPhase = "in" /\ evalProgress = 0) => opacityOf(style) = 0
        /\ (evalPhase = "in" /\ evalProgress = PerMille) => opacityOf(style) = Micro
        /\ (evalPhase = "out" /\ evalProgress = PerMille) => opacityOf(style) = Micro
        /\ (evalPhase = "out" /\ evalProgress = 0) => opacityOf(style) = 0

---------------------------------------------------------------------------
(* Properties of the sound-effect path resolution *)

\* C13: with "ui/pop.mp3" in the catalog, the requests "ui/pop.mp3",
\* "assets/sfx/ui/pop.mp3", "sfx/ui/pop.mp3", the bare "pop.mp3" and its stem
\* "pop" all resolve to the same canonical asset path
PopSpellings == {Req.popRelative, Req.popAssets, Req.popSfx, Req.popFile, Req.popStem}

C13_PopSpellingsResolveAlike ==
    (pc = "resolve" /\ IsSome(sfxRequest) /\ sfxRequest[1] \in PopSpellings) =>
        sfxResolved = Some(CanonicalPop)

C13_Witness ==
    /\ pc = "resolve"
    /\ sfxRequest = Some(Req.popStem)
    /\ sfxResolved = Some(CanonicalPop)

\* the last reference missed the catalog and took the fallback rule
TookFallback ==
    /\ IsSome(sfxResolved)
    /\ \A i \in 1..Len(SFX_LOOKUP) : SFX_LOOKUP[i][2] # sfxResolved[1]

\* C29: normalizeSfx is idempotent: for every reference that resolves to a
\* path, whether through the catalog index or through the fallback
\* namespace rule, resolving the resolved path again returns it unchanged,
\* so the second resolution SfxLayer applies to event.src never changes or
\* drops the asset.
C29_NormalizeSfxIdempotent ==
    (pc = "resolve" /\ rendered # <<>>) => rendered[1] = sfxResolved

\* a reference with a bundler prefix and capitals that misses the catalog,
\* is rewritten by the fallback rule and has been resolved a second time
C29_Witness ==
    /\ pc = "resolve"
    /\ sfxRequest = Some(Req.staticHashPrefix \o Req.zapUpper)
    /\ TookFallback
    /\ sfxResolved # sfxRequest
    /\ rendered = <<sfxResolved>>

---------------------------------------------------------------------------
(* Properties of the sound-effect scheduling of the composition *)

Rendered == pc = "rendered"

HighlightEventId(highlight) == <<"highlight", highlight.id>>

EventIds == { events[k].id : k \in 1..Len(events) }

\* C12: a highlight with duration <= 0 is not in the sanitized list and no
\* SfxEvent is scheduled for it, even when it carries an sfx reference
C12_DegenerateHighlightsUnscheduled ==
    Rendered =>
        \A i \in 1..Len(highlights) :
            highlights[i].duration <= 0 =>
                /\ \A j \in 1..Len(sanitizedHighlights) :
                       sanitizedHighlights[j].id # highlights[i].id
                /\ HighlightEventId(highlights[i]) \notin EventIds

C12_Witness ==
    /\ Rendered
    /\ Len(highlights) = 2
    /\ highlights[1].duration = 0
    /\ highlights[1].sfx = Some(Req.popRelative)
    /\ highlights[2].duration > 0
    /\ EventIds = {HighlightEventId(highlights[2])}

TransitionEventId(i) == <<"transition", timeline[i].segment.id, i - 1>>

EventsWithId(id) == { k \in 1..Len(events) : events[k].id = id }

\* what normalizeSfx makes of each sfx reference the plans hold, computed once
ResolutionOf ==
    [reference \in
        { highlight.sfx[1] : highlight \in { h \in HighlightPool : IsSome(h.sfx) } }
        \cup { transition[1].sfx[1] :
                 transition \in { t \in { segment.transitionIn : segment \in SfxSegmentPool }
                                          \cup { segment.transitionOut : segment \in SfxSegmentPool } :
                                     IsSome(t) /\ IsSome(t[1].sfx) } }
     |-> normalizeSfx(Some(reference))]

HasResolvableSfx(carrier) ==
    IsSome(carrier) /\ IsSome(carrier[1].sfx) /\ IsSome(ResolutionOf[carrier[1].sfx[1]])

HasUnusableSfx(carrier) ==
    IsSome(carrier) /\ IsSome(carrier[1].sfx) /\ ~IsSome(ResolutionOf[carrier[1].sfx[1]])

\* C14: an empty or blank sfx reference drops only its own event: every
\* sanitized highlight and every placed transitionOut whose sfx resolves has
\* exactly one SfxEvent, whatever else the plan holds
C14_DropIsPerEvent ==
    Rendered =>
        /\ \A j \in 1..Len(sanitizedHighlights) :
               HasResolvableSfx(Some(sanitizedHighlights[j])) =>
                   Cardinality(EventsWithId(HighlightEventId(sanitizedHighlights[j]))) = 1
        /\ \A i \in 1..Len(timeline) :
               HasResolvableSfx(timeline[i].segment.transitionOut) =>
                   Cardinality(EventsWithId(TransitionEventId(i))) = 1

C14_Witness ==
    /\ Rendered
    /\ Len(sanitizedHighlights) = 2 /\ Len(timeline) = 2
    /\ HasUnusableSfx(Some(sanitizedHighlights[1]))
    /\ HasResolvableSfx(Some(sanitizedHighlights[2]))
    /\ HasUnusableSfx(timeline[1].segment.transitionOut)
    /\ HasResolvableSfx(timeline[2].segment.transitionOut)
    /\ EventIds = {HighlightEventId(sanitizedHighlights[2]), TransitionEventId(2)}

\* C15: the scheduled list holds the highlight events and the transition
\* events, ascending by startFrame; events with equal startFrame keep their
\* collection order, highlight events in plan order before transition events
\* in timeline order
CollectionRank(event) ==
    IF event.id[1] = "highlight"
    THEN CHOOSE j \in 1..Len(sanitizedHighlights) :
             HighlightEventId(sanitizedHighlights[j]) = event.id
    ELSE Len(sanitizedHighlights) + 1 + event.id[3]

C15_SortedStableMerge ==
    Rendered =>
        /\ \A k \in 1..(Len(events) - 1) :
               \/ events[k].startFrame < events[k + 1].startFrame
               \/ /\ events[k].startFrame = events[k + 1].startFrame
                  /\ CollectionRank(events[k]) < CollectionRank(events[k + 1])
        /\ \A j \in 1..Len(sanitizedHighlights) :
               HasResolvableSfx(Some(sanitizedHighlights[j])) =>
                   \E k \in 1..Len(events) :
                       /\ events[k].id = HighlightEventId(sanitizedHighlights[j])
                       /\ events[k].startFrame =
                              Round(sanitizedHighlights[j].start * fps, TicksPerSecond)
        /\ \A i \in 1..Len(timeline) :
               HasResolvableSfx(timeline[i].segment.transitionOut) =>
                   TransitionEventId(i) \in EventIds

\* a transition event ties with a highlight event and stays behind it, and a
\* later highlight event had to move behind an earlier transition event
C15_Witness ==
    /\ Rendered
    /\ Len(events) = 4
    /\ events[1].id[1] = "highlight" /\ events[2].id[1] = "transition"
    /\ events[1].startFrame = events[2].startFrame
    /\ events[3].id[1] = "highlight" /\ events[3].startFrame > events[2].startFrame
    /\ events[4].id[1] = "transition"

TransitionEventCount ==
    Cardinality({ k \in 1..Len(events) : events[k].id[1] = "transition" })

TransitionEventIsAt(i) ==
    \E k \in 1..Len(events) :
        /\ events[k].id = TransitionEventId(i)
        /\ events[k].startFrame =
               timeline[i].from + (timeline[i].duration - timeline[i].transitionOutFrames)
        /\ events[k].ducking = FALSE

\* C16, as stated: every placed segment whose resolved transitionOut carries
\* an sfx reference has exactly one SfxEvent, at from + (duration -
\* transitionOutFrames) with ducking off, and a placed segment whose resolved
\* transitionOut has no sfx has none
C16_OneEventPerSfxTransition ==
    Rendered =>
        \A i \in 1..Len(timeline) :
            LET out == timeline[i].segment.transitionOut
            IN  IF IsSome(out) /\ IsSome(out[1].sfx)
                THEN /\ Cardinality(EventsWithId(TransitionEventId(i))) = 1
                     /\ TransitionEventIsAt(i)
                ELSE EventsWithId(TransitionEventId(i)) = {}

\* C16, amended: the same for every placed segment whose resolved
\* transitionOut carries an sfx reference that resolves to an asset path; a
\* reference that is empty or blank, like a missing one, creates no event
C16_OneEventPerResolvedSfxTransition ==
    Rendered =>
        /\ \A i \in 1..Len(timeline) :
               IF HasResolvableSfx(timeline[i].segment.transitionOut)
               THEN /\ Cardinality(EventsWithId(TransitionEventId(i))) = 1
                    /\ TransitionEventIsAt(i)
               ELSE EventsWithId(TransitionEventId(i)) = {}
        /\ TransitionEventCount =
               Cardinality({ i \in 1..Len(timeline) :
                               HasResolvableSfx(timeline[i].segment.transitionOut) })

C16_Witness ==
    /\ Rendered
    /\ Len(timeline) = 2
    /\ HasResolvableSfx(timeline[1].segment.transitionOut)
    /\ timeline[1].transitionOutFrames > 0
    /\ TransitionEventIsAt(1)
    /\ HasUnusableSfx(timeline[2].segment.transitionOut)
    /\ TransitionEventCount = 1

---------------------------------------------------------------------------
(* Properties of the gain envelope *)

\* C11: whatever the event's gain (explicit or the configured default),
\* its ducking flag, the audio configuration and the frame offset, the
\* amplitude of the envelope never exceeds 10^(-6/20), 501187 millionths
C11_GainCeiling ==
    pc = "envelope" => amplitude <= 501187

\* an event louder than the ceiling, past its fade-in and before its fade-out
C11_Witness ==
    /\ pc = "envelope"
    /\ envEvent[1].gainDb = Some(6 * MilliDb)
    /\ envEvent[1].ducking = FALSE
    /\ envFrame = MaxEventFrames \div 2
    /\ amplitude = 501187

---------------------------------------------------------------------------
(* Properties of the configuration *)

OverrideOf(field) ==
    IF IsSome(overrides) /\ IsSome(overrides[1].audio)
    THEN overrides[1].audio[1][field]
    ELSE None

\* what the claim asks of one property: a number is clamped into the range,
\* a value that is no number and no numeric string gives the default
ClampedOrDefault(field, min, max) ==
    LET result == runtimeConfig[1].audio[field]
        given == OverrideOf(field)
    IN  /\ min <= result /\ result <= max
        /\ (IsSome(given) /\ given[1].kind = "number") =>
               result = Min(Max(given[1].value, min), max)
        /\ (~IsSome(given) \/ given[1].kind \in {"undefined", "null", "nan", "boolean"}
                \/ (given[1].kind = "string" /\ ~IsSome(toNumber(given[1]))))
                \/ (given[1].kind = "string" /\ Len(trim(given[1].text)) = 0) =>
               result = AUDIO[field]

\* C19: resolveRuntimeConfig returns voiceDuckDb within [-24, 0] and
\* sfxBaseGainDb within [-36, -1] for every override: numbers out of range
\* are clamped, values that are not numeric give the defaults, and the
\* module-level defaults stay as they are
C19_ClampedOrDefaulted ==
    pc = "configured" =>
        /\ ClampedOrDefault("voiceDuckDb", 0 - 24 * MilliDb, 0)
        /\ ClampedOrDefault("sfxBaseGainDb", 0 - 36 * MilliDb, 0 - MilliDb)
        /\ audioDefaults = AUDIO

---------------------------------------------------------------------------
(* Properties of the plan normalization *)

\* C20: parsePlan collapses an unknown transition type token to a safe
\* default type instead of rejecting the plan: every raw plan, whatever its
\* transition tokens, comes out as a plan whose transitions have a type the
\* schema emits, and reaches the timeline builder
C20_UnknownTokenCollapses ==
    pc \in {"parsed", "rejected"} =>
        /\ pc = "parsed"
        /\ IsSome(parseResult)
        /\ Len(segments) = Len(parseInput[1].segments)
        /\ \A i \in 1..Len(segments) :
               IsSome(segments[i].transitionOut) =>
                   segments[i].transitionOut[1].type \in {"cut", "slideWhoosh", "fadeCamera"}

---------------------------------------------------------------------------
(* Properties of the shared transition between neighbours *)

\* the frames a transition asks for before the clamp to half a segment
RequestedFrames(transition) ==
    toFrames(IF IsSome(transition[1].duration)
             THEN transition[1].duration[1]
             ELSE fallbackTransitionSeconds, fps)

\* C21: a segment with silenceAfter other than false and no transitionOut of
\* its own takes the next segment's transitionIn as its transitionOut: the
\* placed copy stores it and transitionOutFrames is its duration clamped to
\* half of this segment's own frames; a transitionOut the segment defines
\* itself is never replaced by the neighbour's transitionIn.
C21_AdoptsNeighbourTransitionIn ==
    Built =>
        \A i \in 1..Len(timeline) :
            segments[i].silenceAfter # FALSE =>
                /\ (/\ ~IsSome(segments[i].transitionOut)
                    /\ i < Len(segments)
                    /\ IsSome(segments[i + 1].transitionIn)) =>
                       /\ timeline[i].segment.transitionOut = segments[i + 1].transitionIn
                       /\ timeline[i].transitionOutFrames =
                              Min(RequestedFrames(segments[i + 1].transitionIn),
                                  timeline[i].duration \div 2)
                /\ IsSome(segments[i].transitionOut) =>
                       /\ timeline[i].segment.transitionOut = segments[i].transitionOut
                       /\ timeline[i].transitionOutFrames =
                              Min(RequestedFrames(segments[i].transitionOut),
                                  timeline[i].duration \div 2)

\* one segment adopts a transitionIn whose frames its own half clamps below
\* what the neighbour gets, another keeps its own transitionOut although the
\* neighbour defines a different transitionIn
C21_Witness ==
    /\ Built
    /\ \E i \in 1..(Len(timeline) - 1) :
          /\ segments[i].silenceAfter # FALSE
          /\ ~IsSome(segments[i].transitionOut)
          /\ IsSome(segments[i + 1].transitionIn)
          /\ IsSome(timeline[i].segment.transitionOut)
          /\ timeline[i].transitionOutFrames < timeline[i + 1].transitionInFrames
    /\ \E i \in 1..(Len(timeline) - 1) :
          /\ segments[i].silenceAfter # FALSE
          /\ IsSome(segments[i].transitionOut)
          /\ IsSome(segments[i + 1].transitionIn)
          /\ segments[i].transitionOut # segments[i + 1].transitionIn
          /\ timeline[i].transitionOutFrames > 0

---------------------------------------------------------------------------
(* Properties of the segment clips *)

Clipped == pc = "sequences" /\ IsSome(clip)

\* the placed segment the last clip render belongs to
ClipSegmentOf == timeline[clip[1].index]

\* the audio fade-out factor of the last clip render, in thousandths
ClipAudioOut ==
    interpolate(clip[1].frame,
        ClipSegmentOf.duration
            - computeAudioFadeFrames(ClipSegmentOf.transitionOutFrames, fps),
        ClipSegmentOf.duration, PerMille, 0)

\* C22: audioCrossfade equals allowIn, false for segment 0 and for a segment
\* whose predecessor has silenceAfter = false, and a placed segment with
\* audioCrossfade = false gets no audio fade-in: at its first local frame
\* its volume is the fade-out factor alone, not attenuated by a fade-in ramp.
C22_NoFadeInWithoutCrossfade ==
    Clipped =>
        /\ ClipSegmentOf.audioCrossfade =
               (clip[1].index > 1 /\ segments[clip[1].index - 1].silenceAfter # FALSE)
        /\ (~ClipSegmentOf.audioCrossfade /\ clip[1].frame = 0) =>
               clip[1].volume = PerMille * ClipAudioOut

\* the composed style of the last clip render changes nothing
IdentityStyle(composed) ==
    /\ composed.opacity = Micro
    /\ composed.translateX = 0
    /\ composed.translateY = 0
    /\ composed.scale = Micro
    /\ composed.rotate = 0

\* the last clip render is at a frame outside both transition windows
OutsideWindows ==
    /\ ClipSegmentOf.transitionInFrames <= clip[1].frame
    /\ clip[1].frame <= ClipSegmentOf.duration - ClipSegmentOf.transitionOutFrames

\* C23: for every placed segment, every transition type and every local
\* frame f with transitionInFrames <= f <= durationFrames -
\* transitionOutFrames, the composed style is the identity: opacity 1,
\* translation (0, 0), scale 1 and rotation 0.
C23_IdentityOutsideWindows ==
    (Clipped /\ OutsideWindows) => IdentityStyle(clip[1].style)

\* a frame right at the end of the entry window of a segment that has an
\* entry and an exit effect, both with a window and neither a cut
C23_Witness ==
    /\ Clipped
    /\ OutsideWindows
    /\ ClipSegmentOf.transitionInFrames > 0
    /\ ClipSegmentOf.transitionOutFrames > 0
    /\ clip[1].frame = ClipSegmentOf.transitionInFrames
    /\ IsSome(clip[1].enter.scale)
    /\ IsSome(clip[1].exit.opacity)

\* one evaluated TransitionStyle changes nothing: every field is left out
\* or holds its neutral value
IdentityEffect(effect) ==
    /\ opacityOf(effect) = Micro
    /\ translateXOf(effect) = 0
    /\ translateYOf(effect) = 0
    /\ scaleOf(effect) = Micro
    /\ rotateOf(effect) = 0
    /\ effect.filter \in {None, Some(0)}

\* C25: for every placed segment transitionInFrames + transitionOutFrames
\* <= durationFrames, so the entry window and the exit window never overlap
\* in their interiors, and at every local frame at most one of the enter and
\* exit effects is not the identity.
C25_WindowsDisjoint ==
    pc = "sequences" =>
        /\ \A i \in 1..Len(timeline) :
               timeline[i].transitionInFrames + timeline[i].transitionOutFrames
                   <= timeline[i].duration
        /\ IsSome(clip) =>
               IdentityEffect(clip[1].enter) \/ IdentityEffect(clip[1].exit)

\* a segment whose two windows fill it exactly, rendered inside its entry
\* window, where the enter effect is at work
C25_Witness ==
    /\ Clipped
    /\ ClipSegmentOf.transitionInFrames > 0
    /\ ClipSegmentOf.transitionInFrames + ClipSegmentOf.transitionOutFrames
           = ClipSegmentOf.duration
    /\ clip[1].frame < ClipSegmentOf.transitionInFrames
    /\ ~IdentityEffect(clip[1].enter)
    /\ IsSome(clip[1].exit.opacity)

---------------------------------------------------------------------------
(* Properties of the placement order and of the composition length *)

\* C26: the total duration returned by getPlanDuration covers every placed
\* segment: startFrame + durationFrames <= total duration for each of
\* them, so no segment is cut off by the composition length.
C26_TotalCoversEverySegment ==
    Built =>
        \A i \in 1..Len(timeline) :
            timeline[i].from + timeline[i].duration <= totalDurationInFrames

\* C27: placed segments start in plan order: placed[i+1].startFrame >=
\* placed[i].startFrame for every adjacent pair.
C27_StartsInPlanOrder ==
    Built =>
        \A i \in 1..(Len(timeline) - 1) :
            timeline[i + 1].from >= timeline[i].from

\* the last envelope evaluation is on the plateau of an unducked event: the
\* fade-in is over, the fade-out and the release have not begun, so the
\* amplitude is the base gain
OnPlateau ==
    /\ envEvent[1].ducking = FALSE
    /\ envFrame >= Max(1, Round(fps * 12, 100))
    /\ envEvent[1].durationInFrames - envFrame >= Max(1, Round(fps * 30, 100))

\* C24: a highlight that supplies only the legacy volume v in [0, 1] and no
\* explicit gain gets the gain 20*log10(v), that is the linear gain v, so
\* the envelope's base gain is min(v, 10^(-6/20)) and not the configured
\* default; an explicit gain takes precedence over the volume.
C24_VolumeSetsBaseGain ==
    (pc = "envelope" /\ highlights # <<>>) =>
        LET highlight == highlights[1]
        IN  /\ IsSome(highlight.gain) => envEvent[1].gainDb = highlight.gain
            /\ (~IsSome(highlight.gain) /\ IsSome(highlight.volume)) =>
                   /\ IsSome(envEvent[1].gainDb)
                   /\ dbToGain(envEvent[1].gainDb[1]) = highlight.volume[1] * PerMille
                   /\ OnPlateau =>
                          amplitude = Min(highlight.volume[1] * PerMille, 501187)

---------------------------------------------------------------------------
(* Properties of the sound of a shared transition *)

\* segment i has no transitionOut of its own and takes the transitionIn of
\* segment i + 1
AdoptsAt(i) ==
    /\ i < Len(segments)
    /\ segments[i].silenceAfter # FALSE
    /\ ~IsSome(segments[i].transitionOut)
    /\ IsSome(segments[i + 1].transitionIn)

\* every transition event stems from the transitionOut of the placed
\* segment its id names and plays what that transition asks for
EventsStemFromTransitionOut ==
    \A k \in 1..Len(events) :
        events[k].id[1] = "transition" =>
            \E i \in 1..Len(timeline) :
                /\ events[k].id = TransitionEventId(i)
                /\ HasResolvableSfx(timeline[i].segment.transitionOut)
                /\ events[k].src = ResolutionOf[timeline[i].segment.transitionOut[1].sfx[1]][1]
                /\ Cardinality(EventsWithId(TransitionEventId(i))) = 1

\* C28, as stated: when a segment without a transitionOut of its own adopts
\* the next segment's transitionIn and that transition carries an sfx,
\* exactly one transition event is scheduled for the boundary, from the
\* adopting segment's transitionOut; a transitionIn produces no event of its
\* own, so no boundary is scheduled twice.
C28_AdoptedSfxScheduledOnce ==
    Rendered =>
        /\ \A i \in 1..Len(timeline) :
               (AdoptsAt(i) /\ IsSome(segments[i + 1].transitionIn[1].sfx)) =>
                   /\ Cardinality(EventsWithId(TransitionEventId(i))) = 1
                   /\ TransitionEventIsAt(i)
        /\ EventsStemFromTransitionOut

\* C28, amended: the same when the adopted transition carries an sfx that
\* resolves to an asset path; an adopted sfx that is blank schedules no
\* event at all, and in neither case does a transitionIn produce an event
\* of its own.
C28_AdoptedResolvedSfxScheduledOnce ==
    Rendered =>
        /\ \A i \in 1..Len(timeline) :
               AdoptsAt(i) =>
                   IF HasResolvableSfx(segments[i + 1].transitionIn)
                   THEN /\ Cardinality(EventsWithId(TransitionEventId(i))) = 1
                        /\ TransitionEventIsAt(i)
                   ELSE EventsWithId(TransitionEventId(i)) = {}
        /\ EventsStemFromTransitionOut

\* segment 1 adopts the transitionIn of segment 2, whose sfx resolves;
\* segment 2 keeps that transitionIn on its placed copy, has no transitionOut
\* and the only transition event is the one of segment 1
C28_Witness ==
    /\ Rendered
    /\ Len(timeline) = 2
    /\ AdoptsAt(1)
    /\ HasResolvableSfx(timeline[2].segment.transitionIn)
    /\ timeline[1].segment.transitionOut = segments[2].transitionIn
    /\ ~IsSome(timeline[2].segment.transitionOut)
    /\ TransitionEventIsAt(1)
    /\ TransitionEventCount = 1

---------------------------------------------------------------------------
(* Properties of the registered composition *)

\* C30: the plan used to compute the composition duration is the plan that
\* is rendered: when both an inline plan and a planPath are supplied and the
\* file has loaded, calculateMetadata and FinalComposition select the same
\* plan, so the total duration of the rendered timeline equals the
\* registered durationInFrames.
C30_RegisteredPlanIsRendered ==
    (/\ pc = "file"
     /\ IsSome(props[1].plan)
     /\ props[1].planPath) =>
        /\ Some(segments) = loadActivePlan(props[1])
        /\ totalDurationInFrames = metadata[1].durationInFrames

====
